---- MODULE Spec2Model ----
(***************************************************************************)
(* Verification model of kocka_kanon (Express host process).               *)
(*                                                                         *)
(*   Actuator Link       src/index.js:1737-1814  (servoSetCmd,             *)
(*                       startServoDaemon, servoCmd)                       *)
(*   Frame Multiplexer   src/index.js:2231-2258  (broadcastFrame)          *)
(*   Stream Lifecycle    src/index.js:2182-2229, 2335-2403                 *)
(*   Tracking Controller src/unnamed/part_001:784-933 (fire/cooldown)      *)
(*                                                                         *)
(* Node runs every handler to completion on one thread, so one action is   *)
(* one handler (or one stretch of an async function between two awaits).   *)
(***************************************************************************)
EXTENDS Integers, Sequences, FiniteSets, TLC

VARIABLES
  \* ---- Actuator Link (src/index.js:1740, 1754-1758) ----
  servoDaemon,      \* 0 = null, n > 0 = the n-th spawned daemon process
  servoReady,       \* BOOLEAN
  servoCallbacks,   \* Map: sequence id -> the call whose promise the closure resolves
  servoSeq,         \* last sequence id handed out
  servoBuffer,      \* text received from the daemon and not yet split into lines
  servoTimeouts,    \* ids of the calls whose 3 s timer is armed
  servoPromise,     \* call -> [st, val, by]: the promise servoCmd returned
  daemonStdin,      \* lines written to the daemon's stdin, in order
  servoRespawn,     \* number of armed 1 s respawn timers
  servoSpawns,      \* daemon processes spawned so far
  daemonSaidReady,  \* the running daemon has printed READY
  daemonStdout,     \* text the daemon has written and the pipe has not delivered
  servoVOffTimer,   \* servoVOffTimer.ref: 0 = null, t > 0 = handle of a timer
  vOffArmed,        \* armed deferred-OFF timers: handle -> ms until it is due
  sinceVMove,       \* ms since the last vertical servoSetCmd, up to SERVO_V_SETTLE_MS
  vOffCalls,        \* deferred OFF calls made since that call (counted up to 2)
  vBurst,           \* vertical servoSetCmd calls in the current burst (up to 2)
  stepPending,      \* route requests awaiting their commands: last id -> [h, v, ids]
  nMoves,           \* requests of the axis routes handled so far
  pendingMove,      \* faceTrackJob.pendingMove: [set, h, v], set = FALSE for null
  \* ---- Frame Multiplexer (src/index.js:2158-2162) ----
  cameraClients,    \* Set of attached viewers (response objects)
  frameBuffer,      \* bytes received from the producer and not yet emitted
  latestFrame,      \* the last complete frame, <<>> = null
  busy,             \* viewer -> its busy flag
  writing,          \* viewer -> frame writes started and not yet completed
  \* ---- the byte stream fed to broadcastFrame (input and observation) ----
  stream,           \* the bytes the producer writes in this run
  fed,              \* how many of them have been delivered
  nChunks,          \* in how many chunks (counted up to ChunkCap)
  emitted,          \* the frames emitted so far, in order
  got,              \* viewer -> the frames written to it: [n, frame], n counted in emitted
  scenario,         \* <<A, B>> when stream is FF D8 A FF D9 FF D8 B FF D9, else <<>>
  fnArg,            \* the argument a pure function of the program is applied to
  fnRes,            \* [done, val]: whether it was applied, and what it returned
  \* ---- Stream Lifecycle (src/index.js:2158-2170, 2335-2403) ----
  cameraProcess,    \* 0 = null, n > 0 = handle of the n-th spawned producer
  cameraPidFile,    \* content of CAMERA_PID_FILE, 0 = no file
  currentQuality,
  uiStreamClients,
  cameraIdleTimer,  \* 0 = null, t > 0 = handle of the t-th idle timer
  idleArmed,        \* idle timers that are armed (not fired, not cleared)
  procAlive,        \* producers running in the operating system
  procSignalled,    \* producers that were sent SIGTERM
  procExited,       \* producers that ended and whose "exit" event is pending
  procSeq,          \* producers spawned so far
  killed,           \* TRUE once a SIGTERM has been sent to a producer
  reqPc,            \* request -> where its /camera/stream handler stands
  reqUi,            \* request -> isUiClient
  reqQuality,       \* request -> req.query.quality
  reqProc,          \* request -> the producer its pending startCameraStream spawned, 0 = none
  watch,            \* progress of the run through attach, detach, re-attach
  \* ---- Tracking Controller (src/unnamed/part_001:789-798) ----
  motionTrackerProcess,  \* 0 = null, n > 0 = the n-th detector process
  motionTrackingActive,
  motionCooldown,
  motionCooldownTimer,   \* 0 = null, else the handle of a cooldown timer
  motionSettleTimer,     \* 0 = null, else the handle of a hold timer
  motionBoutActive,
  motionServoInflight,
  servoState,            \* SERVO_STATE_FILE: [h, v]
  settleArmed,           \* hold timers that are armed
  cooldownArmed,         \* armed cooldown timer -> ms left until it is due
  fetching,              \* /cicka requests of the controller in flight
  moveBatches,           \* the pending Promise.all of the controller: sets of ids
  detOpen,               \* detector processes that have not exited
  detKilled,             \* ... of these, the ones sent SIGTERM
  detSeq,                \* detector processes spawned so far
  nData,                 \* detector chunks handled so far
  sinceTrigger,          \* ms since the last trigger, up to FIRE_COOLDOWN_MS
  obs,                   \* what the run has shown so far (see ObsInit)
  \* ---- Tracking Controller under SEEK (src/index.js:2560-2568) ----
  servoTrackingEnabled,
  motionTrackerMoveInFlight,
  seekRuns,              \* runs of the async stdout handler suspended at their await
  seekObs                \* [seen, late]: the latest chunk an event of which was handled

vOffVars == <<servoVOffTimer, vOffArmed, sinceVMove, vOffCalls, vBurst>>
linkVars == <<servoDaemon, servoReady, servoCallbacks, servoSeq, servoBuffer,
              servoTimeouts, servoPromise, daemonStdin, servoRespawn,
              servoSpawns, daemonSaidReady, daemonStdout, vOffVars>>

routeVars == <<stepPending, pendingMove, nMoves>>
muxVars == <<cameraClients, frameBuffer, latestFrame, busy, writing>>
fnVars == <<fnArg, fnRes>>
feedVars == <<stream, fed, nChunks, emitted, scenario, got, fnVars>>

camVars == <<cameraProcess, cameraPidFile, currentQuality, uiStreamClients,
             cameraIdleTimer, idleArmed, procAlive, procSignalled,
             procExited, procSeq, killed, reqPc, reqUi, reqQuality, reqProc,
             watch>>

trackVars == <<motionTrackerProcess, motionTrackingActive, motionCooldown,
               motionCooldownTimer, motionSettleTimer, motionBoutActive,
               motionServoInflight, servoState, settleArmed, cooldownArmed,
               fetching, moveBatches, detOpen, detKilled, detSeq, nData,
               sinceTrigger, obs>>

seekVars == <<servoTrackingEnabled, motionTrackerMoveInFlight, seekRuns, seekObs>>

vars == <<linkVars, muxVars, feedVars, camVars, trackVars, routeVars, seekVars>>

----------------------------------------------------------------------------
\* Bounds of the model.
MaxSeq == 2          \* sequence ids handed out in one run
MaxPipe == 3         \* tokens written by the daemon and not yet delivered
MaxBuf == 2          \* tokens left in servoBuffer between two chunks
MaxDaemons == 2      \* daemon processes spawned in one run
MaxStream == 6       \* bytes of an arbitrary producer stream
MaxPayload == 2      \* bytes of a frame payload in a two-frame stream
ChunkCap == 3        \* chunks counted exactly below this number
MaxViewers == 2      \* response objects of /camera/stream in one run
MaxProcs == 2        \* producer processes spawned in one run
MaxFrameBuf == 2     \* bytes left in frameBuffer by the producer of a run
MaxData == 3         \* detector chunks handled in one run
MaxLines == 2        \* lines in one detector chunk
MaxSessions == 2     \* detector processes spawned in one run
MaxMoves == 2        \* requests of the axis routes in one run

\* Constants of the program.
SERVO_MIN == 0
SERVO_MAX == 270
SERVO_CENTER == 135
SERVO_H_CHANNEL == 0
SERVO_V_CHANNEL == 1
TRACK_GAIN == 70
TRACK_MAX_STEP == 10
FIRE_SETTLE_MS == 300
FIRE_COOLDOWN_MS == 2000
SERVO_STEP == 5
SERVO_V_SETTLE_MS == 500

----------------------------------------------------------------------------
\* Helpers.
Min(a, b) == IF a < b THEN a ELSE b
Max(a, b) == IF a > b THEN a ELSE b
Range(f) == {f[x] : x \in DOMAIN f}
SeqsUpTo(S, n) == UNION {[1..k -> S] : k \in 0..n}
EmptyMap == [x \in {} |-> 0]
MapSet(m, k, v) == [x \in (DOMAIN m) \cup {k} |-> IF x = k THEN v ELSE m[x]]
MapDel(m, k) == [x \in (DOMAIN m) \ {k} |-> m[x]]

----------------------------------------------------------------------------
\* The daemon's output as text.  A token is a pair <<kind, n>>:
\*   <<"NL", 0>>     the line terminator "\n"
\*   <<"READY", 0>>  the word READY
\*   <<"SEQ", k>>    the tag "SEQ:k " (digits and the blank after them)
\*   <<"TXT", p>>    a word of payload (1 = OK ..., 2 = ERR ...)
NL == <<"NL", 0>>
READY == <<"READY", 0>>
Payloads == {1, 2}
Token == {NL, READY} \cup {<<"SEQ", k>> : k \in 1..MaxSeq}
                     \cup {<<"TXT", p>> : p \in Payloads}

\* String.prototype.split("\n") followed by lines.pop().
LastNL(s) == LET I == {i \in 1..Len(s) : s[i] = NL}
             IN IF I = {} THEN 0 ELSE CHOOSE i \in I : \A j \in I : j <= i
PopLast(s) == SubSeq(s, LastNL(s) + 1, Len(s))
RECURSIVE SplitNL(_)
SplitNL(s) ==
  \* the lines of a text that ends with NL (or is empty)
  IF s = <<>> THEN <<>>
  ELSE LET i == CHOOSE i \in 1..Len(s) : s[i] = NL /\ \A j \in 1..(i-1) : s[j] # NL
       IN <<SubSeq(s, 1, i - 1)>> \o SplitNL(SubSeq(s, i + 1, Len(s)))
CompleteLines(s) == SplitNL(SubSeq(s, 1, LastNL(s)))

\* trimmed.match(/^SEQ:(\d+)\s+(.*)/): a tag that is followed by a blank.
IsTagged(line) == Len(line) >= 1 /\ line[1][1] = "SEQ"
TagOf(line) == line[1][2]
PayloadOf(line) == Tail(line)

\* servoCallbacks.get(Number(m[1])): the key looked up for a tagged line.
OldestKey(cbs, tag) ==
  IF DOMAIN cbs = {} THEN tag
  ELSE CHOOSE k \in DOMAIN cbs : \A j \in DOMAIN cbs : k <= j
CallbackKey(cbs, tag) == tag

\* trimmed === "READY"
ReadyLineAny(line) == ~IsTagged(line)
ReadyLine(line) == line = <<READY>>

\* One line of the for loop in the stdout handler, on the record
\* L = [ready, cbs, tmo, prom].
ServoLine(L, line) ==
  IF line = <<>> THEN L
  ELSE IF ReadyLine(line) THEN [L EXCEPT !.ready = TRUE]
  ELSE IF IsTagged(line) /\ CallbackKey(L.cbs, TagOf(line)) \in DOMAIN L.cbs
    THEN LET key == CallbackKey(L.cbs, TagOf(line))
             call == L.cbs[key]
         IN [L EXCEPT !.cbs = MapDel(L.cbs, key),
                      !.tmo = L.tmo \ {call},
                      !.prom[call] = [st |-> "resolved",
                                      val |-> PayloadOf(line),
                                      by |-> TagOf(line)]]
  ELSE L

RECURSIVE ServoLines(_, _)
ServoLines(L, lines) ==
  IF lines = <<>> THEN L
  ELSE ServoLines(ServoLine(L, Head(lines)), Tail(lines))

----------------------------------------------------------------------------
\* const id = ++servoSeq.
RepeatId(seq) == Max(1, seq)
NextId(seq) == seq + 1

\* if (!servoReady || !servoDaemon)
NoDaemon(ready, daemon) == daemon = 0
NotReady(ready, daemon) == ~ready \/ daemon = 0

\* servoCmd(cmd), on the record
\* K = [seq, cbs, tmo, prom, stdin, ok]; ok tells whether the call was accepted.
ServoCmdOn(K, ready, daemon, cmd) ==
  IF NotReady(ready, daemon)
  THEN [K EXCEPT !.ok = FALSE]
  ELSE LET id == NextId(K.seq)
       IN [seq |-> id,
           cbs |-> MapSet(K.cbs, id, id),
           tmo |-> K.tmo \cup {id},
           prom |-> MapSet(K.prom, id, [st |-> "pending", val |-> <<>>, by |-> 0]),
           stdin |-> Append(K.stdin, [id |-> id, cmd |-> cmd, to |-> daemon]),
           ok |-> TRUE]

LinkK == [seq |-> servoSeq, cbs |-> servoCallbacks, tmo |-> servoTimeouts,
          prom |-> servoPromise, stdin |-> daemonStdin, ok |-> TRUE]

SetLinkK(K) ==
  /\ servoSeq' = K.seq
  /\ servoCallbacks' = K.cbs
  /\ servoTimeouts' = K.tmo
  /\ servoPromise' = K.prom
  /\ daemonStdin' = K.stdin

\* Commands of the callers outside the tracking controller (/servo, ...).
LinkCmds == {[op |-> "SET", ch |-> SERVO_H_CHANNEL, deg |-> SERVO_CENTER]}

\* A direct call of servoCmd by a route handler.
ServoCmd(cmd) ==
  /\ servoSeq < MaxSeq
  /\ SetLinkK(ServoCmdOn(LinkK, servoReady, servoDaemon, cmd))
  /\ UNCHANGED <<servoDaemon, servoReady, servoBuffer, servoRespawn,
                 servoSpawns, daemonSaidReady, daemonStdout, vOffVars>>

\* servoCallbacks.delete(id) of the timeout callback.
TimeoutKeeps(cbs, id) == cbs
TimeoutDrops(cbs, id) == MapDel(cbs, id)

\* The 3 s timer of call id fires.
ServoTimeout(id) ==
  /\ id \in servoTimeouts
  /\ servoTimeouts' = servoTimeouts \ {id}
  /\ servoCallbacks' = TimeoutDrops(servoCallbacks, id)
  /\ servoPromise' = [servoPromise EXCEPT ![id] =
                        [st |-> "rejected", val |-> <<>>, by |-> id]]
  /\ UNCHANGED <<servoDaemon, servoReady, servoSeq, servoBuffer, daemonStdin,
                 servoRespawn, servoSpawns, daemonSaidReady, daemonStdout, vOffVars>>

\* The result of the stdout "data" handler for one chunk.
ServoDataOn(chunk) ==
  LET text == servoBuffer \o chunk
  IN [buf |-> PopLast(text),
      L |-> ServoLines([ready |-> servoReady, cbs |-> servoCallbacks,
                        tmo |-> servoTimeouts, prom |-> servoPromise],
                       CompleteLines(text))]

\* The daemon prints one line (servo.py answers a command, reports READY,
\* or prints something else).
DaemonLines ==
  {<<READY, NL>>, <<NL>>, <<<<"TXT", 1>>, NL>>}
  \cup {<<<<"SEQ", k>>, <<"TXT", p>>, NL>> : k \in 1..MaxSeq, p \in Payloads}

DaemonPrint(line) ==
  /\ servoDaemon # 0
  /\ Len(daemonStdout) + Len(line) <= MaxPipe
  /\ daemonStdout' = daemonStdout \o line
  /\ daemonSaidReady' = (daemonSaidReady \/ line = <<READY, NL>>)
  /\ UNCHANGED <<servoDaemon, servoReady, servoCallbacks, servoSeq, servoBuffer,
                 servoTimeouts, servoPromise, daemonStdin, servoRespawn,
                 servoSpawns, vOffVars>>

\* stdout "data": the pipe delivers the next n tokens as one chunk.
ServoData(n) ==
  /\ n \in 1..Len(daemonStdout)
  /\ LET r == ServoDataOn(SubSeq(daemonStdout, 1, n))
     IN /\ Len(r.buf) <= MaxBuf
        /\ servoBuffer' = r.buf
        /\ servoReady' = r.L.ready
        /\ servoCallbacks' = r.L.cbs
        /\ servoTimeouts' = r.L.tmo
        /\ servoPromise' = r.L.prom
  /\ daemonStdout' = SubSeq(daemonStdout, n + 1, Len(daemonStdout))
  /\ UNCHANGED <<servoDaemon, servoSeq, daemonStdin, servoRespawn,
                 servoSpawns, daemonSaidReady, vOffVars>>

\* servoDaemon.on("exit").
ServoExit ==
  /\ servoDaemon # 0
  /\ servoSpawns < MaxDaemons
  /\ servoReady' = FALSE
  /\ servoDaemon' = 0
  /\ servoRespawn' = servoRespawn + 1
  /\ daemonSaidReady' = FALSE
  /\ \E k \in 0..Len(daemonStdout) : daemonStdout' = SubSeq(daemonStdout, 1, k)
  /\ UNCHANGED <<servoCallbacks, servoSeq, servoBuffer, servoTimeouts,
                 servoPromise, daemonStdin, servoSpawns, vOffVars>>

\* The respawn timer fires: startServoDaemon().
ServoRespawn ==
  /\ servoRespawn > 0
  /\ servoRespawn' = servoRespawn - 1
  /\ servoSpawns' = servoSpawns + 1
  /\ servoDaemon' = servoSpawns + 1
  /\ daemonSaidReady' = FALSE
  /\ UNCHANGED <<servoReady, servoCallbacks, servoSeq, servoBuffer,
                 servoTimeouts, servoPromise, daemonStdin, daemonStdout,
                 vOffVars>>

LinkInit ==
  /\ servoDaemon = 1
  /\ servoReady = FALSE
  /\ servoCallbacks = EmptyMap
  /\ servoSeq = 0
  /\ servoBuffer = <<>>
  /\ servoTimeouts = {}
  /\ servoPromise = EmptyMap
  /\ daemonStdin = <<>>
  /\ servoRespawn = 0
  /\ servoSpawns = 1
  /\ daemonSaidReady = FALSE
  /\ daemonStdout = <<>>
  /\ servoVOffTimer = 0
  /\ vOffArmed = EmptyMap
  /\ sinceVMove = SERVO_V_SETTLE_MS
  /\ vOffCalls = 0
  /\ vBurst = 0

LinkNext ==
  \/ \E cmd \in LinkCmds : ServoCmd(cmd) /\ UNCHANGED <<muxVars, feedVars, camVars, trackVars, routeVars, seekVars>>
  \/ \E id \in 1..MaxSeq : ServoTimeout(id) /\ UNCHANGED <<muxVars, feedVars, camVars, trackVars, routeVars, seekVars>>
  \/ \E line \in DaemonLines : DaemonPrint(line) /\ UNCHANGED <<muxVars, feedVars, camVars, trackVars, routeVars, seekVars>>
  \/ \E n \in 1..MaxPipe : ServoData(n) /\ UNCHANGED <<muxVars, feedVars, camVars, trackVars, routeVars, seekVars>>
  \/ ServoExit /\ UNCHANGED <<muxVars, feedVars, camVars, trackVars, routeVars, seekVars>>
  \/ ServoRespawn /\ UNCHANGED <<muxVars, feedVars, camVars, trackVars, routeVars, seekVars>>

----------------------------------------------------------------------------
\* Frame Multiplexer.  Bytes: 255 = 0xFF, 216 = 0xD8, 217 = 0xD9, 0 = any
\* other byte.
Byte == {255, 216, 217, 0}
jpegStart == <<255, 216>>
jpegEnd == <<255, 217>>
Viewers == 1..MaxViewers

\* Buffer.indexOf(pat, from) for a two-byte pattern, with positions counted
\* from 1 and 0 for "not found" (-1 in the source).
IndexOf(buf, pat, from) ==
  LET I == {i \in from..(Len(buf) - 1) : buf[i] = pat[1] /\ buf[i + 1] = pat[2]}
  IN IF I = {} THEN 0 ELSE CHOOSE i \in I : \A j \in I : i <= j

\* Buffer.concat([frameBuffer, chunk]).
ConcatLost(buf, chunk) == chunk
Concat(buf, chunk) == buf \o chunk

\* frameBuffer.subarray(startIdx, endIdx + 2).
FrameCut(buf, startIdx, endIdx) == SubSeq(buf, startIdx, endIdx - 1)
FrameOf(buf, startIdx, endIdx) == SubSeq(buf, startIdx, endIdx + 1)

\* The broadcast loop over cameraClients for one frame, on the record
\* V = [busy, writing]: a viewer that is not busy gets the frame.
NotBusyAny(V, c) == TRUE
NotBusy(V, c) == ~V.busy[c]
WriteFrame(V, clients) ==
  [busy |-> [c \in Viewers |-> IF c \in clients /\ NotBusy(V, c) THEN TRUE ELSE V.busy[c]],
   writing |-> [c \in Viewers |-> IF c \in clients /\ NotBusy(V, c)
                                    THEN V.writing[c] + 1 ELSE V.writing[c]]]

\* The position from which frameBuffer.indexOf(jpegEnd, startIdx) searches.
EndFromTop(startIdx) == 1
EndFrom(startIdx) == startIdx

\* The while loop of broadcastFrame on the record
\* B = [buf, latest, frames, V].
RECURSIVE FrameLoop(_, _)
FrameLoop(B, clients) ==
  LET startIdx == IndexOf(B.buf, jpegStart, 1)
      endIdx == IF startIdx = 0 THEN 0 ELSE IndexOf(B.buf, jpegEnd, EndFrom(startIdx))
  IN IF startIdx = 0 \/ endIdx = 0 THEN B
     ELSE LET frame == FrameOf(B.buf, startIdx, endIdx)
          IN FrameLoop([buf |-> SubSeq(B.buf, endIdx + 2, Len(B.buf)),
                        latest |-> frame,
                        frames |-> Append(B.frames, frame),
                        V |-> WriteFrame(B.V, clients)], clients)

\* broadcastFrame(chunk).
BroadcastFrame(buf, latest, V, clients, chunk) ==
  FrameLoop([buf |-> Concat(buf, chunk), latest |-> latest, frames |-> <<>>, V |-> V],
            clients)

\* The producer's stdout "data" event with the next n bytes of the stream.
CameraData(n) ==
  /\ n \in 1..(Len(stream) - fed)
  /\ LET r == BroadcastFrame(frameBuffer, latestFrame,
                             [busy |-> busy, writing |-> writing], cameraClients,
                             SubSeq(stream, fed + 1, fed + n))
     IN /\ frameBuffer' = r.buf
        /\ latestFrame' = r.latest
        /\ busy' = r.V.busy
        /\ writing' = r.V.writing
        /\ emitted' = emitted \o r.frames
  /\ fed' = fed + n
  /\ nChunks' = Min(nChunks + 1, ChunkCap)
  /\ UNCHANGED <<cameraClients, stream, scenario>>

\* Streams: every byte sequence up to MaxStream, and the two-frame streams.
Frame(payload) == jpegStart \o payload \o jpegEnd
HasMarker(s) == IndexOf(s, jpegStart, 1) # 0 \/ IndexOf(s, jpegEnd, 1) # 0
FramePayloads == {s \in SeqsUpTo(Byte, MaxPayload) : ~HasMarker(s)}

MuxInit ==
  /\ cameraClients = {}
  /\ frameBuffer = <<>>
  /\ latestFrame = <<>>
  /\ busy = [c \in Viewers |-> FALSE]
  /\ writing = [c \in Viewers |-> 0]

FramesNext == \E n \in 1..Len(stream) : CameraData(n) /\ UNCHANGED <<linkVars, camVars, trackVars, routeVars, seekVars, fnVars, got>>

----------------------------------------------------------------------------
Quality == {"low", "high"}

\* Stream Lifecycle.  The handlers work on the record
\* C = [proc, pid, q, ui, timer, armed, alive, sig, seq, killed,
\*      clients, buf, latest, busy, writing] of the camera globals.
CamC ==
  [proc |-> cameraProcess, pid |-> cameraPidFile, q |-> currentQuality,
   ui |-> uiStreamClients, timer |-> cameraIdleTimer, armed |-> idleArmed,
   alive |-> procAlive, sig |-> procSignalled,
   seq |-> procSeq, killed |-> killed, clients |-> cameraClients,
   buf |-> frameBuffer, latest |-> latestFrame, busy |-> busy,
   writing |-> writing]

SetCamC(C) ==
  /\ cameraProcess' = C.proc
  /\ cameraPidFile' = C.pid
  /\ currentQuality' = C.q
  /\ uiStreamClients' = C.ui
  /\ cameraIdleTimer' = C.timer
  /\ idleArmed' = C.armed
  /\ procAlive' = C.alive
  /\ procSignalled' = C.sig
  /\ procSeq' = C.seq
  /\ killed' = C.killed
  /\ cameraClients' = C.clients
  /\ frameBuffer' = C.buf
  /\ latestFrame' = C.latest
  /\ busy' = C.busy
  /\ writing' = C.writing

\* isProcessRunning(readCameraPid()).
IsProcessRunning(C, pid) == pid # 0 /\ pid \in C.alive

\* cameraProcess.kill("SIGTERM") / kill <pid>: the signal is delivered; the
\* process ends in a later step.
Sigterm(C, p) ==
  IF p = 0 THEN C
  ELSE [C EXCEPT !.sig = C.sig \cup {p}, !.killed = TRUE]

\* if (cameraIdleTimer) { clearTimeout(cameraIdleTimer); cameraIdleTimer = null; }
ClearIdleTimer(C) ==
  IF C.timer # 0
  THEN [C EXCEPT !.armed = C.armed \ {C.timer}, !.timer = 0]
  ELSE C

\* needsRestart of the stream route.
NeedsRestart(C, quality) ==
  C.proc = 0 \/ ~IsProcessRunning(C, C.pid) \/ quality # C.q

\* stopCameraStream(), up to the exec call: TRUE when it resolves at once.
StopResolvesAtOnce(C) == ~IsProcessRunning(C, C.pid) /\ C.proc = 0
StopSync(C) ==
  LET C1 == IF C.proc # 0 THEN [Sigterm(C, C.proc) EXCEPT !.proc = 0] ELSE C
  IN IF IsProcessRunning(C1, C1.pid) THEN Sigterm(C1, C1.pid) ELSE C1

\* The callback of exec in stopCameraStream.
StopExecDone(C) ==
  [C EXCEPT !.pid = 0, !.clients = {}, !.buf = <<>>, !.latest = <<>>]

\* startCameraStream(quality), up to the 500 ms timer.
StartSync(C, quality) ==
  [C EXCEPT !.q = quality, !.buf = <<>>, !.clients = {}, !.latest = <<>>,
            !.proc = C.seq + 1, !.seq = C.seq + 1,
            !.alive = C.alive \cup {C.seq + 1}, !.pid = C.seq + 1]

\* The stream route from uiStreamClients++ to the registration of the
\* close and error handlers.
PushLeavesIdle == FALSE
PushSetsBusy == TRUE
Join(C, r, isUi) ==
  LET C1 == IF isUi THEN [C EXCEPT !.ui = C.ui + 1] ELSE C
      C2 == [C1 EXCEPT !.busy[r] = FALSE, !.clients = C1.clients \cup {r}]
  IN IF C2.latest # <<>>
     THEN [C2 EXCEPT !.busy[r] = PushSetsBusy, !.writing[r] = C2.writing[r] + 1]
     ELSE C2

\* The handle setTimeout returns: a timer that is not armed.
NewTimer(armed) == CHOOSE t \in 1..(Cardinality(armed) + 1) : t \notin armed

\* cleanup() of request r.
Cleanup(C, r, isUi) ==
  LET C1 == [C EXCEPT !.clients = C.clients \ {r}]
  IN IF ~isUi THEN C1
     ELSE LET C2 == [C1 EXCEPT !.ui = Max(0, C1.ui - 1)]
          IN IF C2.ui = 0
             THEN [C2 EXCEPT !.timer = NewTimer(C2.armed),
                             !.armed = C2.armed \cup {NewTimer(C2.armed)}]
             ELSE C2

camRest == <<procExited, reqUi, reqQuality>>
camRestP == <<camRest, reqProc>>

\* Requests are numbered in the order in which they arrive.
IsNextRequest(r) == reqPc[r] = "new" /\ \A o \in 1..(r - 1) : reqPc[o] # "new"

\* GET /camera/stream of a UI client: the handler up to its first await
\* that waits (or to its end when nothing has to be restarted).
AttachUi(r, quality) ==
  /\ IsNextRequest(r)
  /\ LET C0 == ClearIdleTimer(CamC)
         restart == NeedsRestart(C0, quality)
         atOnce == StopResolvesAtOnce(C0)
     IN /\ (restart /\ atOnce) => procSeq < MaxProcs
        /\ SetCamC(IF ~restart THEN Join(C0, r, TRUE)
                   ELSE IF atOnce THEN StartSync(C0, quality)
                   ELSE StopSync(C0))
        /\ reqPc' = [reqPc EXCEPT ![r] =
                       IF ~restart THEN "open"
                       ELSE IF atOnce THEN "starting" ELSE "stopExec"]
        /\ watch' = IF watch = "s0" /\ restart /\ atOnce THEN "a1"
                    ELSE IF watch = "d1" /\ quality = currentQuality THEN "a2"
                    ELSE "off"
  /\ reqUi' = [reqUi EXCEPT ![r] = TRUE]
  /\ reqQuality' = [reqQuality EXCEPT ![r] = quality]
  /\ reqProc' = [reqProc EXCEPT ![r] =
                   IF NeedsRestart(ClearIdleTimer(CamC), quality)
                      /\ StopResolvesAtOnce(ClearIdleTimer(CamC))
                   THEN procSeq + 1 ELSE 0]
  /\ UNCHANGED procExited

\* GET /camera/stream?src=tracker.
AttachTracker(r) ==
  /\ IsNextRequest(r)
  /\ LET ok == IsProcessRunning(CamC, cameraPidFile) /\ cameraProcess # 0
     IN /\ SetCamC(IF ok THEN Join(CamC, r, FALSE) ELSE CamC)
        /\ reqPc' = [reqPc EXCEPT ![r] = IF ok THEN "open" ELSE "failed"]
  /\ reqUi' = [reqUi EXCEPT ![r] = FALSE]
  /\ watch' = "off"
  /\ UNCHANGED <<procExited, reqQuality, reqProc>>

\* stopCameraStream: the exec callback runs and arms the 600 ms timer.
StopExec(r) ==
  /\ reqPc[r] = "stopExec"
  /\ SetCamC(StopExecDone(CamC))
  /\ reqPc' = [reqPc EXCEPT ![r] = "stopWait"]
  /\ UNCHANGED <<camRestP, watch>>

\* The 600 ms timer resolves stopCameraStream; startCameraStream spawns.
StopWait(r) ==
  /\ reqPc[r] = "stopWait"
  /\ procSeq < MaxProcs
  /\ SetCamC(StartSync(CamC, reqQuality[r]))
  /\ reqPc' = [reqPc EXCEPT ![r] = "starting"]
  /\ reqProc' = [reqProc EXCEPT ![r] = procSeq + 1]
  /\ UNCHANGED <<camRest, watch>>

\* The 500 ms timer of startCameraStream, and the rest of the route.
StartTimer(r) ==
  /\ reqPc[r] = "starting"
  /\ LET ok == cameraProcess # 0 /\ IsProcessRunning(CamC, cameraProcess)
     IN /\ SetCamC(IF ok THEN Join(CamC, r, TRUE) ELSE CamC)
        /\ reqPc' = [reqPc EXCEPT ![r] = IF ok THEN "open" ELSE "failed"]
        /\ watch' = IF ok THEN watch ELSE "off"
  /\ reqProc' = [reqProc EXCEPT ![r] = 0]
  /\ UNCHANGED camRest

\* req "close" of an open stream: cleanup() and res.end().
ReqClose(r) ==
  /\ reqPc[r] = "open"
  /\ SetCamC(Cleanup(CamC, r, reqUi[r]))
  /\ reqPc' = [reqPc EXCEPT ![r] = "closed"]
  /\ watch' = IF watch = "a1" THEN "d1" ELSE "off"
  /\ UNCHANGED camRestP

\* The connection of an open stream breaks: req emits "error" and then
\* "close" with nothing in between, so cleanup() runs twice.
ReqAbort(r) ==
  /\ reqPc[r] = "open"
  /\ SetCamC(Cleanup(Cleanup(CamC, r, reqUi[r]), r, reqUi[r]))
  /\ reqPc' = [reqPc EXCEPT ![r] = "closed"]
  /\ watch' = IF watch = "a1" THEN "d1" ELSE "off"
  /\ UNCHANGED camRestP

\* An idle timer fires.
IdleFire(t) ==
  /\ t \in idleArmed
  /\ LET C1 == [CamC EXCEPT !.armed = idleArmed \ {t}, !.timer = 0]
     IN SetCamC(IF C1.ui = 0 /\ C1.proc # 0 THEN Sigterm(C1, C1.proc) ELSE C1)
  /\ watch' = IF watch = "a2" THEN "a2fired"
              ELSE IF watch = "a2fired" THEN watch ELSE "off"
  /\ UNCHANGED <<camRestP, reqPc>>

\* A producer ends (after SIGTERM, or by itself).
ProcDie(p) ==
  /\ p \in procAlive
  /\ procAlive' = procAlive \ {p}
  /\ procExited' = procExited \cup {p}
  /\ watch' = IF p \in procSignalled THEN watch ELSE "off"
  /\ UNCHANGED <<muxVars, cameraProcess, cameraPidFile, currentQuality,
                 uiStreamClients, cameraIdleTimer, idleArmed,
                 procSignalled, procSeq, killed, reqPc, reqUi, reqQuality, reqProc>>

\* cameraProcess.on("exit").
ProcExit(p) ==
  /\ p \in procExited
  /\ procExited' = procExited \ {p}
  /\ SetCamC([CamC EXCEPT !.pid = 0, !.proc = 0, !.clients = {},
                           !.buf = <<>>, !.latest = <<>>,
                           !.sig = procSignalled \ {p}])
  /\ UNCHANGED <<reqPc, reqUi, reqQuality, reqProc, watch>>

\* cameraProcess.stdout.on("data", broadcastFrame) with a chunk of a
\* running producer.
CamChunks == {Frame(<<0>>), <<255, 216>>}

ProducerData(chunk) ==
  /\ procAlive # {}
  /\ LET r == BroadcastFrame(frameBuffer, latestFrame,
                             [busy |-> busy, writing |-> writing], cameraClients,
                             chunk)
     IN /\ Len(r.buf) <= MaxFrameBuf
        /\ frameBuffer' = r.buf
        /\ latestFrame' = r.latest
        /\ busy' = r.V.busy
        /\ writing' = r.V.writing
  /\ UNCHANGED <<cameraClients, camVars>>

\* The callback of the last res.write of a frame.
WriteDone(v) ==
  /\ writing[v] > 0
  /\ busy' = [busy EXCEPT ![v] = FALSE]
  /\ writing' = [writing EXCEPT ![v] = writing[v] - 1]
  /\ UNCHANGED <<cameraClients, frameBuffer, latestFrame, camVars>>

CameraNext ==
  \/ \E r \in Viewers, q \in Quality : AttachUi(r, q) /\ UNCHANGED <<linkVars, feedVars, trackVars, routeVars, seekVars>>
  \/ \E r \in Viewers : AttachTracker(r) /\ UNCHANGED <<linkVars, feedVars, trackVars, routeVars, seekVars>>
  \/ \E r \in Viewers : StopExec(r) /\ UNCHANGED <<linkVars, feedVars, trackVars, routeVars, seekVars>>
  \/ \E r \in Viewers : StopWait(r) /\ UNCHANGED <<linkVars, feedVars, trackVars, routeVars, seekVars>>
  \/ \E r \in Viewers : StartTimer(r) /\ UNCHANGED <<linkVars, feedVars, trackVars, routeVars, seekVars>>
  \/ \E r \in Viewers : ReqClose(r) /\ UNCHANGED <<linkVars, feedVars, trackVars, routeVars, seekVars>>
  \/ \E r \in Viewers : ReqAbort(r) /\ UNCHANGED <<linkVars, feedVars, trackVars, routeVars, seekVars>>
  \/ \E t \in 1..(2 * MaxViewers) : IdleFire(t) /\ UNCHANGED <<linkVars, feedVars, trackVars, routeVars, seekVars>>
  \/ \E p \in 1..MaxProcs : ProcDie(p) /\ UNCHANGED <<linkVars, feedVars, trackVars, routeVars, seekVars>>
  \/ \E p \in 1..MaxProcs : ProcExit(p) /\ UNCHANGED <<linkVars, feedVars, trackVars, routeVars, seekVars>>
  \/ \E chunk \in CamChunks : ProducerData(chunk) /\ UNCHANGED <<linkVars, feedVars, trackVars, routeVars, seekVars>>
  \/ \E v \in Viewers : WriteDone(v) /\ UNCHANGED <<linkVars, feedVars, trackVars, routeVars, seekVars>>

----------------------------------------------------------------------------
\* servoSetCmd (src/index.js 1740-1750), on the record
\* W = [ref, armed, since, calls, burst].
VW == [ref |-> servoVOffTimer, armed |-> vOffArmed, since |-> sinceVMove,
       calls |-> vOffCalls, burst |-> vBurst]

SetVW(W) ==
  /\ servoVOffTimer' = W.ref
  /\ vOffArmed' = W.armed
  /\ sinceVMove' = W.since
  /\ vOffCalls' = W.calls
  /\ vBurst' = W.burst

\* if (servoVOffTimer.ref) { clearTimeout(servoVOffTimer.ref); servoVOffTimer.ref = null; }
KeepVOff(W) == W
ClearVOff(W) ==
  IF W.ref # 0
  THEN [W EXCEPT !.armed = MapDel(W.armed, W.ref), !.ref = 0]
  ELSE W

ServoSetCmdOn(W, ch) ==
  IF ch # SERVO_V_CHANNEL THEN W
  ELSE LET W1 == ClearVOff(W)
           t == NewTimer(DOMAIN W1.armed)
       IN [ref |-> t,
           armed |-> MapSet(W1.armed, t, SERVO_V_SETTLE_MS),
           since |-> 0,
           calls |-> 0,
           burst |-> IF W.since < SERVO_V_SETTLE_MS THEN Min(W.burst + 1, 2) ELSE 1]

\* The deferred OFF of servoSetCmd: timer t is due and runs its callback.
VOffFire(t) ==
  /\ t \in DOMAIN vOffArmed
  /\ vOffArmed[t] = 0
  /\ servoSeq < MaxSeq
  /\ servoVOffTimer' = 0
  /\ vOffArmed' = MapDel(vOffArmed, t)
  /\ vOffCalls' = Min(vOffCalls + 1, 2)
  /\ SetLinkK(ServoCmdOn(LinkK, servoReady, servoDaemon,
                         [op |-> "OFF", ch |-> SERVO_V_CHANNEL, deg |-> 0]))
  /\ UNCHANGED <<servoDaemon, servoReady, servoBuffer, servoRespawn,
                 servoSpawns, daemonSaidReady, daemonStdout, sinceVMove, vBurst>>

\* SERVO_V_SETTLE_MS pass; a timer that is due fires before more time passes.
VTick ==
  /\ \A t \in DOMAIN vOffArmed : vOffArmed[t] > 0
  /\ vOffArmed' = [t \in DOMAIN vOffArmed |->
                     Max(0, vOffArmed[t] - SERVO_V_SETTLE_MS)]
  /\ sinceVMove' = SERVO_V_SETTLE_MS
  /\ UNCHANGED <<servoDaemon, servoReady, servoCallbacks, servoSeq, servoBuffer,
                 servoTimeouts, servoPromise, daemonStdin, servoRespawn,
                 servoSpawns, daemonSaidReady, daemonStdout, servoVOffTimer,
                 vOffCalls, vBurst>>

\* GET /servo?dir=up (src/index.js 1912-1936): one step of the vertical
\* axis, written to the state file when the command has been answered.
ServoUp ==
  LET newV == Min(SERVO_MAX, servoState.v + SERVO_STEP)
      K == ServoCmdOn(LinkK, servoReady, servoDaemon,
                      [op |-> "SET", ch |-> SERVO_V_CHANNEL, deg |-> newV])
  IN /\ servoSeq + 2 <= MaxSeq
     /\ newV # servoState.v
     /\ SetVW(ServoSetCmdOn(VW, SERVO_V_CHANNEL))
     /\ SetLinkK(K)
     /\ stepPending' = IF K.ok
                         THEN MapSet(stepPending, K.seq,
                                     [h |-> servoState.h, v |-> newV, ids |-> {K.seq}])
                         ELSE stepPending
     /\ UNCHANGED <<servoDaemon, servoReady, servoBuffer, servoRespawn,
                    servoSpawns, daemonSaidReady, daemonStdout, pendingMove, nMoves>>

\* await Promise.all(cmds) of a route is over when all its commands are
\* resolved or one is rejected; the route writes the state file only in the
\* first case.
StepsDone(prom) ==
  {id \in DOMAIN stepPending :
     \/ \A c \in stepPending[id].ids : prom[c].st = "resolved"
     \/ \E c \in stepPending[id].ids : prom[c].st = "rejected"}
StepsOk(prom) ==
  {id \in StepsDone(prom) : \A c \in stepPending[id].ids : prom[c].st = "resolved"}
StepsWritten(prom) ==
  IF StepsOk(prom) = {} THEN servoState
  ELSE LET last == CHOOSE id \in StepsOk(prom) : \A o \in StepsOk(prom) : o <= id
       IN [h |-> stepPending[last].h, v |-> stepPending[last].v]

\* The continuation of /servo after await Promise.all(cmds): conjoined with
\* the link step that settles the command.
SettleSteps ==
  LET done == StepsDone(servoPromise')
  IN /\ stepPending' = [id \in DOMAIN stepPending \ done |-> stepPending[id]]
     /\ servoState' = StepsWritten(servoPromise')
     /\ UNCHANGED <<pendingMove, nMoves>>
     /\ UNCHANGED <<motionTrackerProcess, motionTrackingActive, motionCooldown,
                    motionCooldownTimer, motionSettleTimer, motionBoutActive,
                    motionServoInflight, settleArmed, cooldownArmed,
                    fetching, moveBatches, detOpen, detKilled, detSeq, nData,
                    sinceTrigger, obs>>

NoMove == [set |-> FALSE, h |-> 0, v |-> 0]
RouteInit == stepPending = EmptyMap /\ pendingMove = NoMove /\ nMoves = 0

\* let servoTrackingEnabled = false; let motionTrackerMoveInFlight = false;
SeekInit ==
  /\ servoTrackingEnabled = FALSE
  /\ motionTrackerMoveInFlight = FALSE
  /\ seekRuns = {}
  /\ seekObs = [seen |-> 0, late |-> FALSE]

----------------------------------------------------------------------------
\* Tracking Controller with fire and cooldown (src/unnamed/part_001).
\* A detector line is [t |-> "ready" | "error" | "quiet" | "active", cx, cy]
\* with cx, cy in hundredths of the frame.
TrackOffsets == {<<50, 50>>, <<50, 80>>}
DetectorMsgs ==
  {[t |-> k, cx |-> 50, cy |-> 50] : k \in {"ready", "error", "quiet"}}
  \cup {[t |-> "active", cx |-> o[1], cy |-> o[2]] : o \in TrackOffsets}

Clamp(x, lo, hi) == Max(lo, Min(hi, x))

\* Math.round of a value given in hundredths.
Round100(x) == (x + 50) \div 100

\* newH / newV of the P-controller for the position pos and the centroid c.
\* dH / dV: Math.max(-TRACK_MAX_STEP, Math.min(TRACK_MAX_STEP, raw)), in
\* hundredths of a degree.
StepUnclamped(raw) == raw
StepClamp(raw) == Clamp(raw, 0 - TRACK_MAX_STEP * 100, TRACK_MAX_STEP * 100)

TrackTarget(pos, c) ==
  LET raw == (0 - (c - 50)) * TRACK_GAIN
      d == StepClamp(raw)
  IN Clamp(Round100(pos * 100 + d), SERVO_MIN, SERVO_MAX)

ObsInit ==
  [gapOk |-> TRUE,          \* every trigger came FIRE_COOLDOWN_MS after the last
   lastActive |-> FALSE,    \* the last detector event was an active one
   bouts |-> 0,             \* bouts begun (counted up to 2)
   boutTrig |-> 0,          \* triggers issued during the current bout (up to 2)
   boutCalls |-> FALSE,     \* a SET was sent for an event of the current bout
   boutArmed |-> FALSE,     \* a hold timer was armed by the current bout
   boutArms |-> 0,          \* hold timers armed by the current bout (up to 2)
   lateArm |-> FALSE,       \* ... one of them by a later event than its first
   started |-> FALSE,       \* a session was started during the current bout
   boutInCooldown |-> FALSE, \* the current bout began while motionCooldown held
   boutSoon |-> FALSE,      \* ... less than FIRE_COOLDOWN_MS after a trigger
   released |-> FALSE,      \* a cooldown timer fired since the bout began
   rearmed |-> FALSE,       \* ... and an active event of the bout followed
   everStopped |-> FALSE]   \* the session was stopped or torn down

\* The globals of the controller and of the link as one record.
TrackT ==
  [proc |-> motionTrackerProcess, active |-> motionTrackingActive,
   cooldown |-> motionCooldown, cdTimer |-> motionCooldownTimer,
   stTimer |-> motionSettleTimer, bout |-> motionBoutActive,
   inflight |-> motionServoInflight, pos |-> servoState,
   stArmed |-> settleArmed, cdArmed |-> cooldownArmed,
   batches |-> moveBatches, K |-> LinkK, voff |-> VW,
   killed |-> detKilled, obs |-> obs, since |-> sinceTrigger,
   returned |-> FALSE, refused |-> FALSE]

SetTrackT(T) ==
  /\ motionTrackerProcess' = T.proc
  /\ motionTrackingActive' = T.active
  /\ motionCooldown' = T.cooldown
  /\ motionCooldownTimer' = T.cdTimer
  /\ motionSettleTimer' = T.stTimer
  /\ motionBoutActive' = T.bout
  /\ motionServoInflight' = T.inflight
  /\ servoState' = T.pos
  /\ settleArmed' = T.stArmed
  /\ cooldownArmed' = T.cdArmed
  /\ moveBatches' = T.batches
  /\ SetLinkK(T.K)
  /\ SetVW(T.voff)
  /\ detKilled' = T.killed
  /\ obs' = T.obs

\* if (motionSettleTimer) { clearTimeout(motionSettleTimer); motionSettleTimer = null; }
ClearSettle(T) ==
  IF T.stTimer # 0
  THEN [T EXCEPT !.stArmed = T.stArmed \ {T.stTimer}, !.stTimer = 0]
  ELSE T

ClearCooldown(T) ==
  IF T.cdTimer # 0
  THEN [T EXCEPT !.cdArmed = MapDel(T.cdArmed, T.cdTimer), !.cdTimer = 0]
  ELSE T

\* The resets shared by stopMotionTracking() and the "exit" handler.
TeardownOn(T) ==
  LET T1 == [T EXCEPT !.proc = 0, !.active = FALSE, !.cooldown = FALSE,
                      !.bout = FALSE, !.inflight = FALSE,
                      !.obs.everStopped = TRUE, !.obs.lastActive = FALSE]
  IN ClearSettle(ClearCooldown(T1))

\* stopMotionTracking(): the detector, if any, is sent SIGTERM first.
StopMotionTrackingOn(T) ==
  TeardownOn([T EXCEPT !.killed = IF T.proc # 0 THEN T.killed \cup {T.proc}
                                  ELSE T.killed])

\* The controller calls servoCmd("SET ch deg"); for the vertical channel
\* servoSetCmd first re-arms the deferred OFF.
TrackSet(T, ch, deg) ==
  LET K == ServoCmdOn(T.K, servoReady, servoDaemon, [op |-> "SET", ch |-> ch, deg |-> deg])
  IN [T EXCEPT !.K = [K EXCEPT !.ok = T.K.ok /\ K.ok],
               !.voff = ServoSetCmdOn(T.voff, ch),
               !.obs.boutCalls = T.obs.boutCalls \/ K.ok]

\* if (motionCooldown) continue;
NoCooldownSkip(T) == FALSE
CooldownSkip(T) == T.cooldown

\* What an active event means for the bout the observer follows.
ObserveActive(T) ==
  IF ~T.obs.lastActive
  THEN [T EXCEPT !.obs.lastActive = TRUE, !.obs.boutTrig = 0,
                 !.obs.bouts = Min(T.obs.bouts + 1, 2),
                 !.obs.boutCalls = FALSE, !.obs.boutArmed = FALSE,
                 !.obs.boutArms = 0, !.obs.lateArm = FALSE,
                 !.obs.started = FALSE,
                 !.obs.boutInCooldown = T.cooldown,
                 !.obs.boutSoon = T.since < FIRE_COOLDOWN_MS,
                 !.obs.released = FALSE, !.obs.rearmed = FALSE]
  ELSE [T EXCEPT !.obs.rearmed = T.obs.rearmed \/ T.obs.released]

\* if (!motionBoutActive): the first active event of a bout arms the hold
\* timer.
ArmsHoldAlways(T) == TRUE
ArmsHold(T) == ~T.bout

\* motionBoutActive = true, before the hold timer is armed.
HoldLeavesBout == FALSE
HoldMarksBout == TRUE

\* if (newH !== state.horizontal), if (newV !== state.vertical)
DiffersAlways(target, current) == TRUE
Differs(target, current) == target # current

\* The body of the line loop for an active event outside cooldown.
TrackActive(T, msg) ==
  LET newH == TrackTarget(T.pos.h, msg.cx)
      newV == TrackTarget(T.pos.v, msg.cy)
      seq0 == T.K.seq
      T1 == IF Differs(newH, T.pos.h)
            THEN TrackSet([T EXCEPT !.K.ok = TRUE], SERVO_H_CHANNEL, newH)
            ELSE [T EXCEPT !.K.ok = TRUE]
      T2 == IF Differs(newV, T.pos.v) THEN TrackSet(T1, SERVO_V_CHANNEL, newV) ELSE T1
      some == Differs(newH, T.pos.h) \/ Differs(newV, T.pos.v)
      ids == (seq0 + 1)..T2.K.seq
      T3 == IF some /\ ~T2.inflight
            THEN [T2 EXCEPT !.inflight = TRUE,
                            !.pos = [h |-> newH, v |-> newV],
                            !.batches = IF T2.K.ok THEN T2.batches \cup {ids}
                                        ELSE T2.batches,
                            !.refused = T2.refused \/ ~T2.K.ok]
            ELSE T2
  IN IF ArmsHold(T3)
     THEN [T3 EXCEPT !.bout = HoldMarksBout,
                     !.stTimer = NewTimer(T3.stArmed),
                     !.stArmed = T3.stArmed \cup {NewTimer(T3.stArmed)},
                     !.obs.boutArmed = TRUE,
                     !.obs.boutArms = Min(T3.obs.boutArms + 1, 2)]
     ELSE T3

\* if (motionCooldown) continue; and the rest of the loop body.
ActiveLine(T, msg) == IF CooldownSkip(T) THEN T ELSE TrackActive(T, msg)

\* What the handling of an active event (T before, T2 after) shows: a hold
\* timer armed by an event that is not the first of its bout.
ObserveArm(T, T2) ==
  IF T.obs.lastActive /\ T2.stArmed # T.stArmed
  THEN [T2 EXCEPT !.obs.lateArm = TRUE]
  ELSE T2

\* One line of the detector's stdout handler.
TrackLine(T, msg) ==
  IF T.returned \/ msg.t = "ready" THEN T
  ELSE IF msg.t = "error"
    THEN [StopMotionTrackingOn(T) EXCEPT !.returned = TRUE]
  ELSE IF msg.t = "quiet"
    THEN LET T1 == [T EXCEPT !.obs.lastActive = FALSE]
         IN IF T1.bout THEN ClearSettle([T1 EXCEPT !.bout = FALSE]) ELSE T1
  ELSE ObserveArm(T, ActiveLine(ObserveActive(T), msg))

RECURSIVE TrackLines(_, _)
TrackLines(T, msgs) ==
  IF msgs = <<>> THEN T
  ELSE TrackLines(TrackLine(T, Head(msgs)), Tail(msgs))

\* The stdout handler for one chunk, and the reactions that run right after
\* it: a Promise.all with a refused command rejects, and its finally clears
\* the guard.
TrackChunk(T, msgs) ==
  LET T1 == TrackLines(T, msgs)
  IN IF T1.refused THEN [T1 EXCEPT !.inflight = FALSE] ELSE T1

trackRest == <<fetching, detOpen, detSeq, nData, sinceTrigger>>
trackLinkRest == <<servoDaemon, servoReady, servoBuffer, servoRespawn,
                   servoSpawns, daemonSaidReady, daemonStdout>>

\* motionTrackerProcess.stdout.on("data") of detector p: the handler stays
\* registered on the stdout of a detector that was sent SIGTERM, and what
\* the detector had written, or writes before it ends, is still delivered.
DetectorOutput(p, msgs) ==
  /\ p \in detOpen
  /\ nData < MaxData
  /\ LET T == TrackChunk(TrackT, msgs)
     IN /\ T.K.seq <= MaxSeq
        /\ SetTrackT(T)
  /\ nData' = nData + 1
  /\ UNCHANGED <<fetching, detOpen, detSeq, sinceTrigger, trackLinkRest>>

\* The handler for a chunk of a detector that has not been sent SIGTERM.
DetectorData(p, msgs) ==
  /\ p \notin detKilled
  /\ DetectorOutput(p, msgs)

\* GET /motion-track/start.
StartMotionTracking ==
  /\ motionTrackerProcess = 0
  /\ detSeq < MaxSessions
  /\ motionTrackerProcess' = detSeq + 1
  /\ detSeq' = detSeq + 1
  /\ detOpen' = detOpen \cup {detSeq + 1}
  /\ motionTrackingActive' = TRUE
  /\ motionCooldown' = FALSE
  /\ motionBoutActive' = FALSE
  /\ obs' = [obs EXCEPT !.started = obs.lastActive]
  /\ UNCHANGED <<motionCooldownTimer, motionSettleTimer, motionServoInflight,
                 servoState, settleArmed, cooldownArmed, fetching, moveBatches,
                 detKilled, nData, sinceTrigger, linkVars>>

\* GET /motion-track/stop.
StopMotionTracking ==
  /\ motionTrackerProcess # 0
  /\ SetTrackT(StopMotionTrackingOn(TrackT))
  /\ UNCHANGED <<trackRest, trackLinkRest>>

\* motionTrackerProcess.on("exit") of detector p.
DetectorExit(p) ==
  /\ p \in detOpen
  /\ detOpen' = detOpen \ {p}
  /\ SetTrackT(TeardownOn([TrackT EXCEPT !.killed = detKilled \ {p}]))
  /\ UNCHANGED <<fetching, detSeq, nData, sinceTrigger, trackLinkRest>>

\* The delay of the cooldown timer.
CooldownDelay == FIRE_COOLDOWN_MS

\* The hold timer t fires: the callback up to its await fetch(...).
SettleFire(t) ==
  /\ t \in settleArmed
  /\ settleArmed' = settleArmed \ {t}
  /\ motionSettleTimer' = 0
  /\ IF motionCooldown \/ ~motionTrackingActive
     THEN UNCHANGED <<motionCooldown, fetching, sinceTrigger, obs>>
     ELSE /\ motionCooldown' = TRUE
          /\ fetching' = fetching + 1
          /\ sinceTrigger' = 0
          /\ obs' = [obs EXCEPT !.boutTrig = Min(obs.boutTrig + 1, 2),
                                !.gapOk = obs.gapOk /\ sinceTrigger >= FIRE_COOLDOWN_MS]
  /\ UNCHANGED <<motionTrackerProcess, motionTrackingActive, motionCooldownTimer,
                 motionBoutActive, motionServoInflight, servoState,
                 cooldownArmed, moveBatches, detOpen, detKilled, detSeq, nData, linkVars>>

\* The fetch of a trigger settles: the callback arms the cooldown timer.
FetchDone ==
  /\ fetching > 0
  /\ fetching' = fetching - 1
  /\ LET t == NewTimer(DOMAIN cooldownArmed)
     IN /\ motionCooldownTimer' = t
        /\ cooldownArmed' = MapSet(cooldownArmed, t, CooldownDelay)
  /\ UNCHANGED <<motionTrackerProcess, motionTrackingActive, motionCooldown,
                 motionSettleTimer, motionBoutActive, motionServoInflight,
                 servoState, settleArmed, moveBatches, detOpen, detKilled, detSeq, nData,
                 sinceTrigger, obs, linkVars>>

\* The cooldown timer t is due and fires.
CooldownFire(t) ==
  /\ t \in DOMAIN cooldownArmed
  /\ cooldownArmed[t] = 0
  /\ cooldownArmed' = MapDel(cooldownArmed, t)
  /\ motionCooldownTimer' = 0
  /\ motionCooldown' = FALSE
  /\ motionBoutActive' = FALSE
  /\ obs' = [obs EXCEPT !.released = TRUE]
  /\ UNCHANGED <<motionTrackerProcess, motionTrackingActive, motionSettleTimer,
                 motionServoInflight, servoState, settleArmed, fetching,
                 moveBatches, detOpen, detKilled, detSeq, nData, sinceTrigger, linkVars>>

\* Time passes: FIRE_COOLDOWN_MS or more.
Tick ==
  /\ sinceTrigger < FIRE_COOLDOWN_MS \/ \E t \in DOMAIN cooldownArmed : cooldownArmed[t] > 0
  /\ sinceTrigger' = FIRE_COOLDOWN_MS
  /\ cooldownArmed' = [t \in DOMAIN cooldownArmed |->
                        Max(0, cooldownArmed[t] - FIRE_COOLDOWN_MS)]
  /\ UNCHANGED <<motionTrackerProcess, motionTrackingActive, motionCooldown,
                 motionCooldownTimer, motionSettleTimer, motionBoutActive,
                 motionServoInflight, servoState, settleArmed, fetching,
                 moveBatches, detOpen, detKilled, detSeq, nData, obs, linkVars>>

\* The reactions of the controller's Promise.all to the link: a batch ends
\* when all its commands are resolved or one is rejected; its finally clears
\* the guard.
BatchDone(b, prom) ==
  \/ \A id \in b : prom[id].st = "resolved"
  \/ \E id \in b : prom[id].st = "rejected"

SettleBatches ==
  LET done == {b \in moveBatches : BatchDone(b, servoPromise')}
  IN /\ moveBatches' = moveBatches \ done
     /\ motionServoInflight' = IF done # {} THEN FALSE ELSE motionServoInflight
     /\ UNCHANGED <<motionTrackerProcess, motionTrackingActive, motionCooldown,
                    motionCooldownTimer, motionSettleTimer, motionBoutActive,
                    servoState, settleArmed, cooldownArmed, fetching, detOpen, detKilled,
                    detSeq, nData, sinceTrigger, obs>>

\* The lines the daemon prints in the runs of the controller: READY once,
\* and the answers to pending commands.
TrackDaemonLines ==
  (IF servoReady THEN {} ELSE {<<READY, NL>>})
  \cup {<<<<"SEQ", k>>, <<"TXT", 1>>, NL>> : k \in DOMAIN servoCallbacks}

notTrack == <<muxVars, feedVars, camVars, routeVars, seekVars>>
notLink == <<muxVars, feedVars, camVars, trackVars, routeVars, seekVars>>

\* The controller and the link: detector events, moves and their answers.
TrackNext ==
  \/ StartMotionTracking /\ UNCHANGED notTrack
  \/ StopMotionTracking /\ UNCHANGED notTrack
  \/ \E p \in 1..MaxSessions, msgs \in SeqsUpTo(DetectorMsgs, MaxLines) \ {<<>>} :
       DetectorData(p, msgs) /\ UNCHANGED notTrack
  \/ \E p \in 1..MaxSessions : DetectorExit(p) /\ UNCHANGED notTrack
  \/ \E t \in DOMAIN vOffArmed : VOffFire(t) /\ UNCHANGED <<notTrack, trackVars>>
  \/ VTick /\ UNCHANGED <<notTrack, trackVars>>
  \/ \E line \in TrackDaemonLines :
       DaemonPrint(line) /\ daemonStdout = <<>> /\ UNCHANGED <<notTrack, trackVars>>
  \/ ServoData(Len(daemonStdout)) /\ SettleBatches /\ UNCHANGED notTrack
  \/ \E id \in 1..MaxSeq : ServoTimeout(id) /\ SettleBatches /\ UNCHANGED notTrack

\* The controller and its timers: detector events, the hold timer, the
\* trigger and the cooldown; the daemon reports READY and then stays silent.
FireNext ==
  \/ StartMotionTracking /\ UNCHANGED notTrack
  \/ StopMotionTracking /\ UNCHANGED notTrack
  \/ \E p \in 1..MaxSessions, msgs \in SeqsUpTo(DetectorMsgs, MaxLines) \ {<<>>} :
       DetectorData(p, msgs) /\ UNCHANGED notTrack
  \/ \E p \in 1..MaxSessions : DetectorExit(p) /\ UNCHANGED notTrack
  \/ \E t \in 1..MaxData : SettleFire(t) /\ UNCHANGED notTrack
  \/ FetchDone /\ UNCHANGED notTrack
  \/ \E t \in 1..MaxData : CooldownFire(t) /\ UNCHANGED notTrack
  \/ Tick /\ UNCHANGED notTrack
  \/ DaemonPrint(<<READY, NL>>) /\ ~servoReady /\ daemonStdout = <<>>
       /\ UNCHANGED <<notTrack, trackVars>>
  \/ ServoData(Len(daemonStdout)) /\ SettleBatches /\ UNCHANGED notTrack

----------------------------------------------------------------------------
\* Initial states and specifications.
CamInit ==
  /\ cameraProcess = 0
  /\ cameraPidFile = 0
  /\ currentQuality = "low"
  /\ uiStreamClients = 0
  /\ cameraIdleTimer = 0
  /\ idleArmed = {}
  /\ procAlive = {}
  /\ procSignalled = {}
  /\ procExited = {}
  /\ procSeq = 0
  /\ killed = FALSE
  /\ reqPc = [r \in Viewers |-> "new"]
  /\ reqUi = [r \in Viewers |-> TRUE]
  /\ reqQuality = [r \in Viewers |-> "low"]
  /\ reqProc = [r \in Viewers |-> 0]
  /\ watch = "s0"

TrackInit ==
  /\ motionTrackerProcess = 0
  /\ motionTrackingActive = FALSE
  /\ motionCooldown = FALSE
  /\ motionCooldownTimer = 0
  /\ motionSettleTimer = 0
  /\ motionBoutActive = FALSE
  /\ motionServoInflight = FALSE
  /\ servoState = [h |-> SERVO_CENTER, v |-> SERVO_CENTER]
  /\ settleArmed = {}
  /\ cooldownArmed = EmptyMap
  /\ fetching = 0
  /\ moveBatches = {}
  /\ detOpen = {}
  /\ detKilled = {}
  /\ detSeq = 0
  /\ nData = 0
  /\ sinceTrigger = FIRE_COOLDOWN_MS
  /\ obs = ObsInit

FnInit ==
  /\ fnArg = 0
  /\ fnRes = [done |-> FALSE, val |-> 0]

StreamInit ==
  /\ stream = <<>>
  /\ fed = 0
  /\ nChunks = 0
  /\ emitted = <<>>
  /\ scenario = <<>>
  /\ got = [v \in Viewers |-> <<>>]

FeedInit == StreamInit /\ FnInit

FramesInit ==
  /\ LinkInit
  /\ MuxInit
  /\ CamInit
  /\ TrackInit
  /\ RouteInit /\ SeekInit
  /\ FnInit
  /\ fed = 0
  /\ nChunks = 0
  /\ emitted = <<>>
  /\ got = [v \in Viewers |-> <<>>]
  /\ \/ stream \in SeqsUpTo(Byte, MaxStream) /\ scenario = <<>>
     \/ \E A, B \in FramePayloads :
          stream = Frame(A) \o Frame(B) /\ scenario = <<A, B>>

AllInit == LinkInit /\ MuxInit /\ FeedInit /\ CamInit /\ TrackInit /\ RouteInit /\ SeekInit

SpecLink == AllInit /\ [][LinkNext]_vars

\* The link with the host's scheduling: output waiting in the pipe of the
\* daemon is delivered to the stdout handler, and the respawn timer fires.
ServoDataStep == \E n \in 1..MaxPipe : ServoData(n) /\ UNCHANGED notLink
ServoRespawnStep == ServoRespawn /\ UNCHANGED notLink
SpecLinkRecover ==
  /\ AllInit
  /\ [][LinkNext]_vars
  /\ WF_vars(ServoDataStep)
  /\ WF_vars(ServoRespawnStep)

\* The life of the link: commands, their deadlines, whole lines of the
\* daemon (READY once, answers to pending commands), exit and respawn.
LifeNext ==
  \/ \E cmd \in LinkCmds : ServoCmd(cmd) /\ UNCHANGED notLink
  \/ \E id \in 1..MaxSeq : ServoTimeout(id) /\ UNCHANGED notLink
  \/ \E line \in TrackDaemonLines :
       DaemonPrint(line) /\ daemonStdout = <<>> /\ UNCHANGED notLink
  \/ ServoData(Len(daemonStdout)) /\ UNCHANGED notLink
  \/ ServoExit /\ UNCHANGED notLink
  \/ ServoRespawn /\ UNCHANGED notLink

\* Timers of the host fire: the 3 s timer of a call, once armed and not
\* cleared, runs its callback.
ServoTimeoutStep(id) == ServoTimeout(id) /\ UNCHANGED notLink

SpecLinkLife ==
  /\ AllInit
  /\ [][LifeNext]_vars
  /\ \A id \in 1..MaxSeq : WF_vars(ServoTimeoutStep(id))

SpecFrames == FramesInit /\ [][FramesNext]_vars

SpecCamera == AllInit /\ [][CameraNext]_vars

\* The multiplexer with the frames each viewer is written: a producer
\* started by /camera?action=start emits a stream of MaxFrames frames, and
\* viewers attach, are written to, and leave.
MaxFrames == 3       \* frames in the stream of the producers of a run
RECURSIVE FrameStream(_)
FrameStream(k) ==
  IF k = 0 THEN <<>>
  ELSE FrameStream(k - 1) \o Frame(IF k % 2 = 0 THEN <<0>> ELSE <<>>)

\* The frames of one broadcastFrame call as they are written to the viewers:
\* G is got, V = [busy, writing] before the frame, base the number of frames
\* emitted before it.
RECURSIVE Deliver(_, _, _, _, _)
Deliver(G, V, clients, frames, base) ==
  IF frames = <<>> THEN G
  ELSE LET G1 == [c \in Viewers |->
                    IF c \in clients /\ NotBusy(V, c)
                    THEN Append(G[c], [n |-> base + 1, frame |-> Head(frames)])
                    ELSE G[c]]
       IN Deliver(G1, WriteFrame(V, clients), clients, Tail(frames), base + 1)

\* GET /camera?action=start (src/index.js 2267-2310).
CameraStart ==
  /\ ~IsProcessRunning(CamC, cameraPidFile)
  /\ procSeq < MaxProcs
  /\ SetCamC(StartSync(CamC, "low"))
  /\ UNCHANGED <<camRestP, reqPc, watch, got>>

\* A chunk of the running producer, with the frames it hands to viewers.
FeedData(n) ==
  /\ procAlive # {}
  /\ CameraData(n)
  /\ got' = Deliver(got, [busy |-> busy, writing |-> writing], cameraClients,
                    SubSeq(emitted', Len(emitted) + 1, Len(emitted')), Len(emitted))
  /\ UNCHANGED <<camVars, fnVars>>

\* GET /camera/stream?src=tracker, with the frame pushed at registration.
ViewerAttach(v) ==
  /\ AttachTracker(v)
  /\ got' = [got EXCEPT ![v] = IF writing'[v] > writing[v]
                                THEN <<[n |-> Len(emitted), frame |-> latestFrame]>>
                                ELSE got[v]]
  /\ UNCHANGED <<stream, fed, nChunks, emitted, scenario, fnVars>>

ViewInit ==
  /\ LinkInit /\ MuxInit /\ CamInit /\ TrackInit /\ RouteInit /\ SeekInit /\ FnInit
  /\ stream = FrameStream(MaxFrames)
  /\ fed = 0
  /\ nChunks = 0
  /\ emitted = <<>>
  /\ scenario = <<>>
  /\ got = [v \in Viewers |-> <<>>]

viewRest == <<linkVars, trackVars, routeVars, seekVars>>
ViewNext ==
  \/ CameraStart /\ UNCHANGED <<viewRest, stream, fed, nChunks, emitted, scenario, fnVars>>
  \/ \E n \in 1..Len(stream) : FeedData(n) /\ UNCHANGED viewRest
  \/ \E v \in Viewers : ViewerAttach(v) /\ UNCHANGED viewRest
  \/ \E v \in Viewers : WriteDone(v) /\ UNCHANGED <<viewRest, feedVars>>
  \/ \E v \in Viewers : ReqClose(v) /\ UNCHANGED <<viewRest, feedVars>>
  \/ \E p \in 1..MaxProcs : ProcDie(p) /\ UNCHANGED <<viewRest, feedVars>>
  \/ \E p \in 1..MaxProcs : ProcExit(p) /\ UNCHANGED <<viewRest, feedVars>>

SpecViewers == ViewInit /\ [][ViewNext]_vars

SpecTrack == AllInit /\ [][TrackNext]_vars

SpecFire == AllInit /\ [][FireNext]_vars

\* The same controller under the guarantees of the event loop: a request
\* that was issued settles (with a response or with an error), time passes,
\* and a timer that is due fires.
FetchDoneStep == FetchDone /\ UNCHANGED notTrack
TickStep == Tick /\ UNCHANGED notTrack
CooldownFireStep == \E t \in 1..MaxData : CooldownFire(t) /\ UNCHANGED notTrack
SpecFireLife ==
  /\ AllInit
  /\ [][FireNext]_vars
  /\ WF_vars(FetchDoneStep)
  /\ WF_vars(TickStep)
  /\ WF_vars(CooldownFireStep)

\* The controller under detector faults: sessions end by an error line or
\* by the exit of the detector, and a detector's output is delivered until
\* its exit.
FaultNext ==
  \/ StartMotionTracking /\ UNCHANGED notTrack
  \/ \E p \in 1..MaxSessions, msgs \in SeqsUpTo(DetectorMsgs, MaxLines) \ {<<>>} :
       DetectorOutput(p, msgs) /\ UNCHANGED notTrack
  \/ \E p \in 1..MaxSessions : DetectorExit(p) /\ UNCHANGED notTrack
  \/ \E line \in TrackDaemonLines :
       DaemonPrint(line) /\ daemonStdout = <<>> /\ UNCHANGED <<notTrack, trackVars>>
  \/ ServoData(Len(daemonStdout)) /\ SettleBatches /\ UNCHANGED notTrack
  \/ \E id \in 1..MaxSeq : ServoTimeout(id) /\ SettleBatches /\ UNCHANGED notTrack

SpecFault == AllInit /\ [][FaultNext]_vars

\* The stdout handler on one chunk: the link with up to MaxSeq calls made,
\* each pending, answered or timed out, a started line in servoBuffer, and a
\* chunk of up to MaxChunk tokens in the pipe; fnArg keeps the link as it
\* was before the chunk.
MaxChunk == 3
CallStates == {"pending", "resolved", "rejected"}
PromiseOf(st, id) ==
  [st |-> st,
   val |-> IF st = "resolved" THEN <<<<"TXT", 1>>>> ELSE <<>>,
   by |-> IF st = "pending" THEN 0 ELSE id]
CallsInit ==
  /\ MuxInit /\ StreamInit /\ CamInit /\ TrackInit /\ RouteInit /\ SeekInit
  /\ servoVOffTimer = 0 /\ vOffArmed = EmptyMap
  /\ sinceVMove = SERVO_V_SETTLE_MS /\ vOffCalls = 0 /\ vBurst = 0
  /\ servoSeq \in 0..MaxSeq
  /\ \E st \in [1..servoSeq -> CallStates] :
       /\ servoPromise = [id \in 1..servoSeq |-> PromiseOf(st[id], id)]
       /\ servoCallbacks = [id \in {i \in 1..servoSeq : st[i] = "pending"} |-> id]
       /\ servoTimeouts = {i \in 1..servoSeq : st[i] = "pending"}
  /\ daemonStdin = [i \in 1..servoSeq |->
                     [id |-> i,
                      cmd |-> [op |-> "SET", ch |-> SERVO_H_CHANNEL, deg |-> SERVO_CENTER],
                      to |-> 1]]

StrayInit ==
  /\ CallsInit
  /\ servoDaemon = 1 /\ servoSpawns = 1 /\ servoRespawn = 0
  /\ servoReady \in (IF servoSeq = 0 THEN BOOLEAN ELSE {TRUE})
  /\ daemonSaidReady = servoReady
  /\ servoBuffer \in SeqsUpTo(Token \ {NL}, 1)
  /\ daemonStdout \in SeqsUpTo(Token, MaxChunk) \ {<<>>}
  /\ fnArg = [ready |-> servoReady, cbs |-> servoCallbacks, tmo |-> servoTimeouts,
              prom |-> servoPromise,
              lines |-> CompleteLines(servoBuffer \o daemonStdout)]
  /\ fnRes = [done |-> FALSE, val |-> 0]

ApplyServoData ==
  /\ ~fnRes.done
  /\ ServoData(Len(daemonStdout))
  /\ fnRes' = [done |-> TRUE, val |-> 0]
  /\ UNCHANGED <<fnArg, muxVars, stream, fed, nChunks, emitted, scenario, got,
                 camVars, trackVars, routeVars, seekVars>>

SpecStray == StrayInit /\ [][ApplyServoData]_vars

\* servoCmd called once on the link with some calls made before: the daemon
\* running and ready, running and not yet ready, or gone (with the READY of
\* the old one read or not); fnArg keeps the link as it was before the call
\* and fnRes whether the call was accepted.
CmdSet ==
  {[op |-> "SET", ch |-> c, deg |-> d] :
     c \in {SERVO_H_CHANNEL, SERVO_V_CHANNEL}, d \in {SERVO_MIN, SERVO_MAX}}

CmdInit ==
  /\ CallsInit
  /\ servoSeq < MaxSeq
  /\ servoSpawns = 1
  /\ servoDaemon \in {0, 1}
  /\ servoRespawn = 1 - servoDaemon
  /\ servoReady \in (IF servoSeq = 0 \/ servoDaemon = 0 THEN BOOLEAN ELSE {TRUE})
  /\ daemonSaidReady = (servoReady /\ servoDaemon # 0)
  /\ servoBuffer \in SeqsUpTo(Token \ {NL}, 1)
  /\ daemonStdout = <<>>
  /\ fnArg = [ready |-> servoReady, daemon |-> servoDaemon, K |-> LinkK]
  /\ fnRes = [done |-> FALSE, val |-> FALSE]

ApplyServoCmd ==
  /\ ~fnRes.done
  /\ \E cmd \in CmdSet :
       /\ ServoCmd(cmd)
       /\ fnRes' = [done |-> TRUE,
                    val |-> ServoCmdOn(LinkK, servoReady, servoDaemon, cmd).ok]
  /\ UNCHANGED <<fnArg, muxVars, stream, fed, nChunks, emitted, scenario, got,
                 camVars, trackVars, routeVars, seekVars>>

SpecCmd == CmdInit /\ [][ApplyServoCmd]_vars

\* The control law alone: a position of the axis range and a centroid
\* coordinate in hundredths of the frame, and one application of the law.
Offsets == 0..100
LawInit ==
  /\ LinkInit /\ MuxInit /\ StreamInit /\ CamInit /\ TrackInit /\ RouteInit /\ SeekInit
  /\ fnArg \in [p : SERVO_MIN..SERVO_MAX, c : Offsets]
  /\ fnRes = [done |-> FALSE, val |-> 0]

ApplyTrackTarget ==
  /\ ~fnRes.done
  /\ fnRes' = [done |-> TRUE, val |-> TrackTarget(fnArg.p, fnArg.c)]
  /\ UNCHANGED <<fnArg, linkVars, muxVars, stream, fed, nChunks, emitted, scenario, got,
                 camVars, trackVars, routeVars, seekVars>>

SpecLaw == LawInit /\ [][ApplyTrackTarget]_vars

----------------------------------------------------------------------------
\* The persisted position file.  Its content is a string over FileChars;
\* a number read from it is kept exactly, as sign, integer part and the
\* digits of its fraction without trailing zeros.
MaxFile == 4         \* characters of the position file
DigitChars == {"0", "2", "9"}
FileChars == DigitChars \cup {"-", ".", ",", " ", "x"}
DigitVal(c) == IF c = "0" THEN 0 ELSE IF c = "2" THEN 2 ELSE 9

Num(n) == [fin |-> TRUE, neg |-> FALSE, int |-> n, frac |-> <<>>]
NaN == [fin |-> FALSE, neg |-> FALSE, int |-> 0, frac |-> <<>>]
NumLess(x, n) == x.neg
NumGreater(x, n) == ~x.neg /\ (x.int > n \/ (x.int = n /\ x.frac # <<>>))

\* String.prototype.trim on the blanks of FileChars.
RECURSIVE TrimLeft(_)
TrimLeft(s) == IF s # <<>> /\ Head(s) = " " THEN TrimLeft(Tail(s)) ELSE s
RECURSIVE TrimRight(_)
TrimRight(s) ==
  IF s # <<>> /\ s[Len(s)] = " " THEN TrimRight(SubSeq(s, 1, Len(s) - 1)) ELSE s
Trim(s) == TrimRight(TrimLeft(s))

\* data.split(","): parts[0] and parts[1]; parts[1] is undefined when the
\* data holds no comma.
Commas(s) == {i \in 1..Len(s) : s[i] = ","}
FirstComma(s) == CHOOSE i \in Commas(s) : \A j \in Commas(s) : i <= j
Part0(s) == IF Commas(s) = {} THEN s ELSE SubSeq(s, 1, FirstComma(s) - 1)
Part1(s) ==
  IF Commas(s) = {} THEN <<"x">>
  ELSE LET rest == SubSeq(s, FirstComma(s) + 1, Len(s))
       IN Part0(rest)

\* parseFloat: blanks are skipped, then the longest prefix that is a decimal
\* literal (sign, digits, point, digits) is the number; NaN when there is
\* none.
RECURSIVE DigitRun(_)
DigitRun(s) == IF s # <<>> /\ Head(s) \in DigitChars THEN 1 + DigitRun(Tail(s)) ELSE 0
RECURSIVE DigitsInt(_)
DigitsInt(q) ==
  IF q = <<>> THEN 0
  ELSE DigitsInt(SubSeq(q, 1, Len(q) - 1)) * 10 + DigitVal(q[Len(q)])
RECURSIVE StripZeros(_)
StripZeros(q) ==
  IF q # <<>> /\ q[Len(q)] = "0" THEN StripZeros(SubSeq(q, 1, Len(q) - 1)) ELSE q
ParseFloat(str) ==
  LET s0 == TrimLeft(str)
      neg == s0 # <<>> /\ Head(s0) = "-"
      s1 == IF neg THEN Tail(s0) ELSE s0
      n1 == DigitRun(s1)
      s2 == SubSeq(s1, n1 + 1, Len(s1))
      dot == s2 # <<>> /\ Head(s2) = "."
      n2 == IF dot THEN DigitRun(Tail(s2)) ELSE 0
      int == DigitsInt(SubSeq(s1, 1, n1))
      frac == IF dot THEN StripZeros(SubSeq(s2, 2, n2 + 1)) ELSE <<>>
  IN IF n1 = 0 /\ n2 = 0 THEN NaN
     ELSE [fin |-> TRUE, neg |-> neg /\ (int # 0 \/ frac # <<>>),
           int |-> int, frac |-> frac]

\* Math.max(SERVO_MIN, Math.min(SERVO_MAX, x))
ClampNum(x) ==
  IF NumLess(x, SERVO_MIN) THEN Num(SERVO_MIN)
  ELSE IF NumGreater(x, SERVO_MAX) THEN Num(SERVO_MAX)
  ELSE x

\* readServoState() on a file that cannot be read (readFileSync throws) or
\* that holds data.
readServoState(file) ==
  IF ~file.exists
  THEN [horizontal |-> Num(SERVO_CENTER), vertical |-> Num(SERVO_CENTER)]
  ELSE LET data == Trim(file.data)
           h == ParseFloat(Part0(data))
           v == ParseFloat(Part1(data))
       IN [horizontal |-> IF h.fin THEN ClampNum(h) ELSE Num(SERVO_CENTER),
           vertical |-> IF v.fin THEN ClampNum(v) ELSE Num(SERVO_CENTER)]

Files ==
  {[exists |-> FALSE, data |-> <<>>]}
    \cup {[exists |-> TRUE, data |-> d] : d \in SeqsUpTo(FileChars, MaxFile)}

ReadInit ==
  /\ LinkInit /\ MuxInit /\ StreamInit /\ CamInit /\ TrackInit /\ RouteInit /\ SeekInit
  /\ fnArg \in Files
  /\ fnRes = [done |-> FALSE, val |-> 0]

ApplyReadServoState ==
  /\ ~fnRes.done
  /\ fnRes' = [done |-> TRUE, val |-> readServoState(fnArg)]
  /\ UNCHANGED <<fnArg, linkVars, muxVars, stream, fed, nChunks, emitted, scenario, got,
                 camVars, trackVars, routeVars, seekVars>>

SpecRead == ReadInit /\ [][ApplyReadServoState]_vars

----------------------------------------------------------------------------
\* The callers that move the axes: /servo, /servo/center, /servo/dance,
\* /face-track with /face-track/move, and the tracking controller.
SERVO_FOV_H == 150
SERVO_FOV_V == 112
Dirs == {"up", "down", "left", "right"}
DancePos == {[h |-> 165, v |-> 110], [h |-> 105, v |-> 160]}
FaceCentres == {<<0, 100>>, <<100, 0>>}

\* Math.max(SERVO_MIN, Math.min(SERVO_MAX, x))
AxisFree(x) == x
AxisClamp(x) == Clamp(x, SERVO_MIN, SERVO_MAX)

\* newH / newV of /face-track for the position pos, the centre c of the face
\* in hundredths of the frame and the field of view fov.
FaceTarget(pos, c, fov) == AxisClamp(Round100(pos * 100 + (0 - (c - 50)) * fov))

\* servoCmd(`SET ch deg`), through servoSetCmd for the vertical channel.
MoveOn(M, ch, deg) ==
  LET K == ServoCmdOn(M.K, servoReady, servoDaemon, [op |-> "SET", ch |-> ch, deg |-> deg])
  IN [K |-> [K EXCEPT !.ok = M.K.ok /\ K.ok], voff |-> ServoSetCmdOn(M.voff, ch)]

\* A route sends the commands of a move to (h, v) and writes the state file
\* either at once or when all of them have been answered.
RouteMove(h, v, sendH, sendV, writeNow) ==
  LET M0 == [K |-> LinkK, voff |-> VW]
      M1 == IF sendH THEN MoveOn(M0, SERVO_H_CHANNEL, h) ELSE M0
      M2 == IF sendV THEN MoveOn(M1, SERVO_V_CHANNEL, v) ELSE M1
      ids == (servoSeq + 1)..M2.K.seq
  IN /\ servoSeq + 2 <= MaxSeq
     /\ nMoves < MaxMoves
     /\ nMoves' = nMoves + 1
     /\ SetLinkK(M2.K)
     /\ SetVW(M2.voff)
     /\ stepPending' = IF M2.K.ok /\ ~writeNow
                         THEN MapSet(stepPending, M2.K.seq, [h |-> h, v |-> v, ids |-> ids])
                         ELSE stepPending
     /\ servoState' = IF writeNow THEN [h |-> h, v |-> v] ELSE servoState
     /\ UNCHANGED <<servoDaemon, servoReady, servoBuffer, servoRespawn,
                    servoSpawns, daemonSaidReady, daemonStdout>>
     /\ UNCHANGED <<motionTrackerProcess, motionTrackingActive, motionCooldown,
                    motionCooldownTimer, motionSettleTimer, motionBoutActive,
                    motionServoInflight, settleArmed, cooldownArmed,
                    fetching, moveBatches, detOpen, detKilled, detSeq, nData,
                    sinceTrigger, obs>>

\* GET /servo?dir=up|down|left|right
ServoStep(dir) ==
  LET newH == IF dir = "left" THEN Min(SERVO_MAX, servoState.h + SERVO_STEP)
              ELSE IF dir = "right" THEN Max(SERVO_MIN, servoState.h - SERVO_STEP)
              ELSE servoState.h
      newV == IF dir = "up" THEN Min(SERVO_MAX, servoState.v + SERVO_STEP)
              ELSE IF dir = "down" THEN Max(SERVO_MIN, servoState.v - SERVO_STEP)
              ELSE servoState.v
  IN /\ newH # servoState.h \/ newV # servoState.v
     /\ RouteMove(newH, newV, newH # servoState.h, newV # servoState.v, FALSE)
     /\ UNCHANGED pendingMove

\* GET /servo/center
ServoCenter ==
  /\ RouteMove(SERVO_CENTER, SERVO_CENTER, TRUE, TRUE, FALSE)
  /\ UNCHANGED pendingMove

\* One step of the timeline of /servo/dance: moveServo(h, v).
DanceStep(pos) ==
  /\ RouteMove(AxisClamp(pos.h), AxisClamp(pos.v), TRUE, TRUE, TRUE)
  /\ UNCHANGED pendingMove

\* The face detection job of /face-track ends with a face centred at c.
FaceTrack(c) ==
  /\ nMoves < MaxMoves
  /\ nMoves' = nMoves + 1
  /\ pendingMove' = [set |-> TRUE,
                     h |-> FaceTarget(servoState.h, c[1], SERVO_FOV_H),
                     v |-> FaceTarget(servoState.v, c[2], SERVO_FOV_V)]
  /\ UNCHANGED <<linkVars, trackVars, stepPending, seekVars>>

\* GET /face-track/move
FaceTrackMove ==
  /\ pendingMove.set
  /\ pendingMove' = NoMove
  /\ RouteMove(pendingMove.h, pendingMove.v, TRUE, TRUE, FALSE)

\* The continuations of the routes and of the controller after their
\* Promise.all: conjoined with the link step that settles a command.
SettleMoves ==
  LET done == {b \in moveBatches : BatchDone(b, servoPromise')}
      steps == StepsDone(servoPromise')
  IN /\ moveBatches' = moveBatches \ done
     /\ motionServoInflight' = IF done # {} THEN FALSE ELSE motionServoInflight
     /\ stepPending' = [id \in DOMAIN stepPending \ steps |-> stepPending[id]]
     /\ servoState' = StepsWritten(servoPromise')
     /\ UNCHANGED <<motionTrackerProcess, motionTrackingActive, motionCooldown,
                    motionCooldownTimer, motionSettleTimer, motionBoutActive,
                    settleArmed, cooldownArmed, fetching, detOpen, detKilled,
                    detSeq, nData, sinceTrigger, obs, pendingMove, nMoves>>

\* Positions the axes start from, and centroids of the detector at two
\* opposite corners of the frame.
AxisStarts == {SERVO_MIN, SERVO_MIN + 3, SERVO_CENTER, SERVO_MAX - 3, SERVO_MAX}
AxesMsgs ==
  {[t |-> "active", cx |-> o[1], cy |-> o[2]] : o \in {<<0, 100>>, <<100, 0>>}}

AxesInit ==
  /\ LinkInit /\ MuxInit /\ FeedInit /\ CamInit /\ RouteInit /\ SeekInit
  /\ \E a \in AxisStarts : servoState = [h |-> a, v |-> a]
  /\ motionTrackerProcess = 0
  /\ motionTrackingActive = FALSE
  /\ motionCooldown = FALSE
  /\ motionCooldownTimer = 0
  /\ motionSettleTimer = 0
  /\ motionBoutActive = FALSE
  /\ motionServoInflight = FALSE
  /\ settleArmed = {}
  /\ cooldownArmed = EmptyMap
  /\ fetching = 0
  /\ moveBatches = {}
  /\ detOpen = {}
  /\ detKilled = {}
  /\ detSeq = 0
  /\ nData = 0
  /\ sinceTrigger = FIRE_COOLDOWN_MS
  /\ obs = ObsInit

axesRest == <<muxVars, feedVars, camVars, seekVars>>
AxesNext ==
  \/ \E dir \in Dirs : ServoStep(dir) /\ UNCHANGED axesRest
  \/ ServoCenter /\ UNCHANGED axesRest
  \/ \E pos \in DancePos : DanceStep(pos) /\ UNCHANGED axesRest
  \/ \E c \in FaceCentres : FaceTrack(c) /\ UNCHANGED axesRest
  \/ FaceTrackMove /\ UNCHANGED axesRest
  \/ StartMotionTracking /\ UNCHANGED notTrack
  \/ \E p \in 1..MaxSessions, msg \in AxesMsgs :
       DetectorData(p, <<msg>>) /\ UNCHANGED notTrack
  \/ \E line \in TrackDaemonLines :
       DaemonPrint(line) /\ daemonStdout = <<>> /\ UNCHANGED <<notTrack, trackVars>>
  \/ ServoData(Len(daemonStdout)) /\ SettleMoves /\ UNCHANGED axesRest
  \/ \E id \in 1..MaxSeq : ServoTimeout(id) /\ SettleMoves /\ UNCHANGED axesRest

SpecAxes == AxesInit /\ [][AxesNext]_vars

\* The controller on single active events: the axes start at the ends or
\* the centre of their range, the centroid is at the centre or at an edge of
\* the frame on each axis, and fnArg keeps the event with the position, the
\* guard and the number of commands written before it was handled.
MovePositions == {SERVO_MIN, SERVO_CENTER, SERVO_MAX}
MoveMsgs ==
  {[t |-> "active", cx |-> x, cy |-> y] : x \in {0, 50, 100}, y \in {0, 50, 100}}

MoveInit ==
  /\ LinkInit /\ MuxInit /\ StreamInit /\ CamInit /\ RouteInit /\ SeekInit
  /\ servoState \in [h : MovePositions, v : MovePositions]
  /\ motionTrackerProcess = 0
  /\ motionTrackingActive = FALSE
  /\ motionCooldown = FALSE
  /\ motionCooldownTimer = 0
  /\ motionSettleTimer = 0
  /\ motionBoutActive = FALSE
  /\ motionServoInflight = FALSE
  /\ settleArmed = {}
  /\ cooldownArmed = EmptyMap
  /\ fetching = 0
  /\ moveBatches = {}
  /\ detOpen = {}
  /\ detKilled = {}
  /\ detSeq = 0
  /\ nData = 0
  /\ sinceTrigger = FIRE_COOLDOWN_MS
  /\ obs = ObsInit
  /\ fnArg = [msg |-> [t |-> "quiet", cx |-> 50, cy |-> 50], pos |-> servoState,
              inflight |-> FALSE, sent |-> 0]
  /\ fnRes = [done |-> FALSE, val |-> 0]

moveRest == <<muxVars, stream, fed, nChunks, emitted, scenario, got, camVars, routeVars, seekVars>>

MoveEvent(p, msg) ==
  /\ DetectorData(p, <<msg>>)
  /\ fnArg' = [msg |-> msg, pos |-> servoState, inflight |-> motionServoInflight,
               sent |-> Len(daemonStdin)]
  /\ fnRes' = [done |-> TRUE, val |-> 0]
  /\ UNCHANGED moveRest

MoveNext ==
  \/ StartMotionTracking /\ UNCHANGED notTrack
  \/ \E p \in 1..MaxSessions, msg \in MoveMsgs : MoveEvent(p, msg)
  \/ \E line \in TrackDaemonLines :
       DaemonPrint(line) /\ daemonStdout = <<>> /\ UNCHANGED <<notTrack, trackVars>>
  \/ ServoData(Len(daemonStdout)) /\ SettleBatches /\ UNCHANGED notTrack
  \/ \E id \in 1..MaxSeq : ServoTimeout(id) /\ SettleBatches /\ UNCHANGED notTrack

SpecMove == MoveInit /\ [][MoveNext]_vars

\* The vertical axis driven by /servo: steps, the passing of time, the
\* deferred OFF, the daemon's READY and answers, its exit and respawn.
SettleNext ==
  \/ ServoUp /\ UNCHANGED <<muxVars, feedVars, camVars, trackVars, seekVars>>
  \/ VTick /\ UNCHANGED notLink
  \/ \E t \in DOMAIN vOffArmed : VOffFire(t) /\ UNCHANGED notLink
  \/ \E line \in TrackDaemonLines :
       DaemonPrint(line) /\ daemonStdout = <<>> /\ UNCHANGED notLink
  \/ ServoData(Len(daemonStdout)) /\ SettleSteps /\ UNCHANGED <<muxVars, feedVars, camVars, seekVars>>
  \/ \E id \in 1..MaxSeq : ServoTimeout(id) /\ SettleSteps /\ UNCHANGED <<muxVars, feedVars, camVars, seekVars>>
  \/ ServoExit /\ UNCHANGED notLink
  \/ ServoRespawn /\ UNCHANGED notLink

\* Timers of the host fire when due, and time passes.
VTickStep == VTick /\ UNCHANGED notLink
VOffFireStep == \E t \in DOMAIN vOffArmed : VOffFire(t) /\ UNCHANGED notLink

SpecSettle ==
  /\ AllInit
  /\ [][SettleNext]_vars
  /\ WF_vars(VTickStep)
  /\ WF_vars(VOffFireStep)

----------------------------------------------------------------------------
\* Tracking Controller under SEEK (src/index.js 2560-2709): the stdout
\* handler is an async function that awaits the acknowledgment of a move
\* inside its line loop.  A run of the handler goes from its entry, or from
\* the settling of the Promise.all it awaits, to its next await or its end.
\* Chunks are numbered by nData; a suspended run keeps the number of its
\* chunk, the lines it has not reached, the ids it awaits and its target.
SeekS ==
  [K |-> LinkK, voff |-> VW, pos |-> servoState, ready |-> servoReady,
   inflight |-> motionTrackerMoveInFlight, runs |-> seekRuns, obs |-> seekObs]

SetSeekS(S) ==
  /\ SetLinkK(S.K)
  /\ SetVW(S.voff)
  /\ servoState' = S.pos
  /\ motionTrackerMoveInFlight' = S.inflight
  /\ seekRuns' = S.runs
  /\ seekObs' = S.obs

\* cmds.push(servoCmd(...)): for the vertical channel servoSetCmd first
\* re-arms the deferred OFF.
SeekSet(S, ch, deg) ==
  LET K == ServoCmdOn(S.K, S.ready, servoDaemon, [op |-> "SET", ch |-> ch, deg |-> deg])
  IN [S EXCEPT !.K = [K EXCEPT !.ok = S.K.ok /\ K.ok],
               !.voff = ServoSetCmdOn(S.voff, ch)]

\* The line loop of a run for the lines of chunk c, up to its await.
RECURSIVE SeekLines(_, _, _)
SeekLines(S, c, lines) ==
  IF lines = <<>> THEN S
  ELSE
    LET msg == Head(lines)
        rest == Tail(lines)
        S0 == [S EXCEPT !.obs.seen = Max(S.obs.seen, c)]
        newH == TrackTarget(S.pos.h, msg.cx)
        newV == TrackTarget(S.pos.v, msg.cy)
        seq0 == S.K.seq
        S1 == IF newH # S.pos.h
              THEN SeekSet([S0 EXCEPT !.K.ok = TRUE], SERVO_H_CHANNEL, newH)
              ELSE [S0 EXCEPT !.K.ok = TRUE]
        S2 == IF newV # S.pos.v THEN SeekSet(S1, SERVO_V_CHANNEL, newV) ELSE S1
        ids == (seq0 + 1)..S2.K.seq
    IN IF msg.t # "active" \/ ~servoTrackingEnabled \/ S.inflight
       THEN SeekLines(S0, c, rest)
       ELSE IF newH = S.pos.h /\ newV = S.pos.v
       THEN SeekLines(S0, c, rest)
       ELSE IF ~S2.K.ok
       \* the commands were refused: the await throws, finally clears the
       \* guard and the loop goes on
       THEN SeekLines([S2 EXCEPT !.inflight = FALSE], c, rest)
       ELSE [S2 EXCEPT !.inflight = TRUE,
                       !.obs.late = S.obs.late \/ S.obs.seen > c,
                       !.runs = S2.runs \cup
                         {[chunk |-> c, rest |-> rest, ids |-> ids,
                           h |-> newH, v |-> newV]}]

\* The run resumes after its await: writeServoState if the move was
\* acknowledged and SEEK is still on, finally, and the rest of the loop.
SeekResume(S, run) ==
  LET acked == \A id \in run.ids : S.K.prom[id].st = "resolved"
      S1 == [S EXCEPT !.pos = IF acked /\ servoTrackingEnabled
                               THEN [h |-> run.h, v |-> run.v] ELSE S.pos,
                      !.inflight = FALSE,
                      !.runs = S.runs \ {run}]
  IN SeekLines(S1, run.chunk, run.rest)

\* Every run whose Promise.all has settled resumes.
RECURSIVE SeekSettle(_)
SeekSettle(S) ==
  IF \E run \in S.runs : BatchDone(run.ids, S.K.prom)
  THEN LET run == CHOOSE r \in S.runs : BatchDone(r.ids, S.K.prom)
       IN SeekSettle(SeekResume(S, run))
  ELSE S

seekTrackRest == <<motionCooldown, motionCooldownTimer, motionSettleTimer,
                   motionBoutActive, motionServoInflight, settleArmed,
                   cooldownArmed, fetching, moveBatches, sinceTrigger, obs>>
seekRest == <<muxVars, feedVars, camVars, routeVars>>

\* startMotionTracking() of src/index.js.
SeekStartMotionTracking ==
  /\ motionTrackerProcess = 0
  /\ detSeq < MaxSessions
  /\ motionTrackerProcess' = detSeq + 1
  /\ detSeq' = detSeq + 1
  /\ detOpen' = detOpen \cup {detSeq + 1}
  /\ motionTrackingActive' = TRUE
  /\ UNCHANGED <<detKilled, nData, servoState, seekTrackRest, linkVars,
                 seekVars, seekRest>>

\* stopMotionTracking() of src/index.js.
SeekStopMotionTracking ==
  /\ motionTrackerProcess # 0
  /\ detKilled' = detKilled \cup {motionTrackerProcess}
  /\ motionTrackerProcess' = 0
  /\ motionTrackingActive' = FALSE
  /\ motionTrackerMoveInFlight' = FALSE
  /\ UNCHANGED <<detOpen, detSeq, nData, servoState, seekTrackRest, linkVars,
                 servoTrackingEnabled, seekRuns, seekObs, seekRest>>

\* GET /motion-track/servo-enable and /motion-track/servo-disable.
ServoEnable ==
  /\ ~servoTrackingEnabled
  /\ servoTrackingEnabled' = TRUE
  /\ UNCHANGED <<motionTrackerMoveInFlight, seekRuns, seekObs, trackVars,
                 linkVars, seekRest>>

ServoDisable ==
  /\ servoTrackingEnabled
  /\ servoTrackingEnabled' = FALSE
  /\ UNCHANGED <<motionTrackerMoveInFlight, seekRuns, seekObs, trackVars,
                 linkVars, seekRest>>

\* motionTrackerProcess.stdout.on("data", async (d) => ...) of detector p:
\* a new run, for the lines of the next chunk.
SeekData(p, msgs) ==
  /\ p \in detOpen \ detKilled
  /\ nData < MaxData
  /\ nData' = nData + 1
  /\ LET S == SeekLines(SeekS, nData + 1, msgs)
     IN /\ S.K.seq <= MaxSeq
        /\ SetSeekS(S)
  /\ UNCHANGED <<motionTrackerProcess, motionTrackingActive, detOpen, detKilled,
                 detSeq, seekTrackRest, servoTrackingEnabled, servoDaemon,
                 servoReady, servoBuffer, servoRespawn, servoSpawns,
                 daemonSaidReady, daemonStdout, seekRest>>

\* The daemon's stdout handler, and the runs its answers resume.
SeekServoData ==
  /\ daemonStdout # <<>>
  /\ LET r == ServoDataOn(daemonStdout)
         S == SeekSettle([SeekS EXCEPT !.K.cbs = r.L.cbs, !.K.tmo = r.L.tmo,
                                       !.K.prom = r.L.prom, !.ready = r.L.ready])
     IN /\ Len(r.buf) <= MaxBuf
        /\ S.K.seq <= MaxSeq
        /\ servoBuffer' = r.buf
        /\ servoReady' = r.L.ready
        /\ SetSeekS(S)
  /\ daemonStdout' = <<>>
  /\ UNCHANGED <<motionTrackerProcess, motionTrackingActive, detOpen, detKilled,
                 detSeq, nData, seekTrackRest, servoTrackingEnabled, servoDaemon,
                 servoRespawn, servoSpawns, daemonSaidReady, seekRest>>

\* The 3 s timer of call id fires, and the runs its rejection resumes.
SeekServoTimeout(id) ==
  /\ id \in servoTimeouts
  /\ LET S == SeekSettle([SeekS EXCEPT
                  !.K.tmo = servoTimeouts \ {id},
                  !.K.cbs = TimeoutDrops(servoCallbacks, id),
                  !.K.prom = [servoPromise EXCEPT ![id] =
                                [st |-> "rejected", val |-> <<>>, by |-> id]]])
     IN /\ S.K.seq <= MaxSeq
        /\ SetSeekS(S)
  /\ UNCHANGED <<motionTrackerProcess, motionTrackingActive, detOpen, detKilled,
                 detSeq, nData, seekTrackRest, servoTrackingEnabled, servoDaemon,
                 servoReady, servoBuffer, servoRespawn, servoSpawns,
                 daemonSaidReady, daemonStdout, seekRest>>

SeekNext ==
  \/ SeekStartMotionTracking
  \/ SeekStopMotionTracking
  \/ ServoEnable
  \/ ServoDisable
  \/ \E p \in 1..MaxSessions, msgs \in SeqsUpTo(DetectorMsgs, MaxLines) \ {<<>>} :
       SeekData(p, msgs)
  \/ \E line \in TrackDaemonLines :
       DaemonPrint(line) /\ daemonStdout = <<>>
         /\ UNCHANGED <<trackVars, seekVars, seekRest>>
  \/ SeekServoData
  \/ \E id \in 1..MaxSeq : SeekServoTimeout(id)

SpecSeek == AllInit /\ [][SeekNext]_vars

----------------------------------------------------------------------------
\* C1: every settled servoCmd promise was settled by its own response line
\* (the line whose tag is the call's sequence id, with that line's payload
\* class) or by its own 3 s timer, never by a line or timer of another call.
C1_OwnSettlement ==
  \A c \in DOMAIN servoPromise :
    /\ servoPromise[c].st # "pending" => servoPromise[c].by = c
    /\ servoPromise[c].st = "pending" => servoPromise[c].by = 0

\* Two calls pending together, the later one answered first.
C1_Witness ==
  \E a, b \in DOMAIN servoPromise :
    /\ a < b
    /\ servoPromise[a].st = "pending"
    /\ servoPromise[b].st = "resolved"
    /\ servoPromise[b].val # <<>>

----------------------------------------------------------------------------
\* C2: chunk-boundary independence.  After the producer's bytes have been
\* fed in any chunks, the frames emitted so far (and the bytes kept in
\* frameBuffer, and latestFrame) are those of one broadcastFrame call, from an
\* empty frameBuffer, on the bytes fed so far.
OneCall(bytes) ==
  BroadcastFrame(<<>>, <<>>, [busy |-> busy, writing |-> writing], {}, bytes)

C2_ChunkIndependence ==
  LET one == OneCall(SubSeq(stream, 1, fed))
  IN /\ emitted = one.frames
     /\ frameBuffer = one.buf
     /\ latestFrame = one.latest

\* A frame whose bytes arrived in three or more chunks has been emitted.
C2_Witness ==
  /\ nChunks >= ChunkCap
  /\ fed = Len(stream)
  /\ emitted # <<>>

\* C3: two well-formed frames fed in two chunks give exactly the frames
\* FF D8 A FF D9 and FF D8 B FF D9, in this order, and latestFrame is the
\* second one.
C3_TwoFrames ==
  (scenario # <<>> /\ fed = Len(stream) /\ nChunks <= 2) =>
     /\ emitted = <<Frame(scenario[1]), Frame(scenario[2])>>
     /\ latestFrame = Frame(scenario[2])

\* The two chunks were cut inside the first frame's end marker.
C3_Witness ==
  /\ scenario # <<>>
  /\ fed = Len(stream)
  /\ nChunks = 2
  /\ Len(emitted) = 2
  /\ scenario[1] # <<>>
  /\ scenario[2] # scenario[1]

----------------------------------------------------------------------------
\* C4: viewer backpressure.  A viewer's busy flag is set exactly while one of
\* its frame writes is in progress, and a viewer never has two frame writes
\* in progress, whether the write was started by broadcastFrame or by the
\* push of latestFrame in the stream route.
C4_Backpressure ==
  \A v \in Viewers :
    /\ writing[v] <= 1
    /\ busy[v] <=> (writing[v] = 1)

\* A busy viewer has been passed over by a broadcast: a frame was emitted
\* while its earlier frame write was still in progress.
C4_Witness ==
  \E v \in Viewers :
    /\ v \in cameraClients
    /\ busy[v]
    /\ writing[v] = 1
    /\ latestFrame = Frame(<<0>>)
    /\ \E w \in Viewers : w # v /\ w \in cameraClients /\ ~busy[w]

----------------------------------------------------------------------------
\* The number of SET lines written to the daemon's stdin.
SetsSent(stdin) ==
  Cardinality({i \in 1..Len(stdin) : stdin[i].cmd.op = "SET"})

\* No step taken while motionCooldown is set writes a SET line.
NoMoveInCooldown ==
  motionCooldown => SetsSent(daemonStdin') = SetsSent(daemonStdin)

\* C5 as stated: a run with a single bout issues at most one trigger for it,
\* and no move command is sent while the cooldown holds.
C5_SingleBoutOneTrigger ==
  /\ [](obs.bouts = 1 => obs.boutTrig <= 1)
  /\ [][NoMoveInCooldown]_vars

\* C5, amended: the single bout of a run issues at most one trigger as long
\* as none of its active events arrives after a cooldown release and no
\* session is started during it; in a run
\* without stop or teardown, a bout that began outside cooldown has issued
\* its trigger once its hold timer is no longer pending; and no step taken
\* while motionCooldown is set sends a move command.
C5_OneTriggerUntilRearmed ==
  /\ []((obs.bouts = 1 /\ ~obs.rearmed /\ ~obs.started) => obs.boutTrig <= 1)
  /\ []((obs.lastActive /\ ~obs.everStopped /\ ~obs.boutInCooldown
          /\ settleArmed = {}) => obs.boutTrig >= 1)
  /\ [][NoMoveInCooldown]_vars

\* A single bout has moved the actuator and issued its one trigger, and the
\* cooldown has been released with no active event after it.
C5_Witness ==
  /\ obs.bouts = 1
  /\ obs.lastActive
  /\ obs.boutCalls
  /\ obs.boutTrig = 1
  /\ obs.released
  /\ ~obs.rearmed
  /\ ~motionCooldown
  /\ ~obs.everStopped

----------------------------------------------------------------------------
\* C6 as stated: a bout that begins less than FIRE_COOLDOWN_MS after a
\* trigger (in a run without stop or teardown) causes no move command, arms
\* no hold timer and issues no trigger.
C6_SecondBoutGated ==
  (obs.boutSoon /\ ~obs.everStopped) =>
     (~obs.boutCalls /\ ~obs.boutArmed /\ obs.boutTrig = 0)

\* C6, amended: a bout that begins while motionCooldown is set causes no
\* move command, arms no hold timer and issues no trigger as long as no
\* cooldown timer has fired since it began.
C6_GatedUntilRelease ==
  (obs.lastActive /\ obs.boutInCooldown /\ ~obs.released) =>
     (~obs.boutCalls /\ ~obs.boutArmed /\ obs.boutTrig = 0)

\* A second bout has had an active event handled under cooldown while the
\* daemon was ready to take a move.
C6_Witness ==
  /\ obs.bouts = 2
  /\ obs.lastActive
  /\ obs.boutInCooldown
  /\ obs.boutSoon
  /\ ~obs.released
  /\ motionCooldown
  /\ servoReady
  /\ ~obs.everStopped

----------------------------------------------------------------------------
\* C7: attach, detach, re-attach with the same quality before the idle timer
\* of the detach has fired: the producer was spawned once, no SIGTERM was
\* sent, and the idle timer armed by the detach was cancelled by the
\* re-attach (none is left armed) and never fires.
C7_OneProducerTimerCancelled ==
  watch \in {"a2", "a2fired"} =>
    /\ procSeq = 1
    /\ ~killed
    /\ idleArmed = {}
    /\ watch # "a2fired"

----------------------------------------------------------------------------
\* C8: while motionServoInflight is set no step writes a SET line to the
\* daemon, and at most one move batch of the controller is outstanding.
C8_InflightGuard ==
  /\ [](Cardinality(moveBatches) <= 1)
  /\ [][motionServoInflight =>
          SetsSent(daemonStdin') = SetsSent(daemonStdin)]_vars

----------------------------------------------------------------------------
\* C9: the persisted position changes only in a step in which every command
\* of an outstanding move batch has been acknowledged, and only while the
\* session is active.
C9_PersistAfterAck ==
  [][servoState' # servoState =>
        /\ motionTrackingActive'
        /\ \E b \in moveBatches :
             \A id \in b : servoPromise'[id].st = "resolved"]_vars

----------------------------------------------------------------------------
\* C10: at most one trigger request is executing at any time, and every
\* trigger is issued at least FIRE_COOLDOWN_MS after the one before it.
C10_TriggerSpacing ==
  /\ fetching <= 1
  /\ obs.gapOk

----------------------------------------------------------------------------
\* C11: no timer or callback of a stopped session changes the state of a
\* later session.  A session's cooldown is then released only by its own
\* cooldown timer: a step that clears motionCooldown in a session that stays
\* active comes FIRE_COOLDOWN_MS or more after the latest trigger.
C11_NoStaleCallback ==
  [][(motionCooldown /\ ~motionCooldown' /\ motionTrackingActive')
        => sinceTrigger >= FIRE_COOLDOWN_MS]_vars
----------------------------------------------------------------------------
\* C12: an accepted servoCmd call settles exactly once.  A call is pending
\* exactly while its entry is in servoCallbacks and its 3 s timer is armed; a
\* settled promise never changes again; a promise is resolved only by a line
\* and rejected only by its timer; and every entry of servoCallbacks is
\* eventually removed, whatever the daemon does.
C12_SettlesOnce ==
  /\ [](\A id \in DOMAIN servoPromise :
          /\ (servoPromise[id].st = "pending") <=> (id \in DOMAIN servoCallbacks)
          /\ (servoPromise[id].st = "pending") <=> (id \in servoTimeouts))
  /\ [](DOMAIN servoCallbacks \subseteq DOMAIN servoPromise)
  /\ [][\A id \in DOMAIN servoPromise :
          servoPromise[id].st # "pending" => servoPromise'[id] = servoPromise[id]]_vars
  /\ \A id \in 1..MaxSeq :
       (id \in DOMAIN servoCallbacks) ~> (id \notin DOMAIN servoCallbacks)

\* A command was pending when the daemon exited and has been rejected by its
\* own timer, while another one was resolved by its response line.
C12_Witness ==
  /\ servoSpawns > 1
  /\ \E a, b \in DOMAIN servoPromise :
       /\ servoPromise[a].st = "resolved"
       /\ servoPromise[b].st = "rejected"
       /\ servoCallbacks = EmptyMap
----------------------------------------------------------------------------
\* C13: the ids written to the daemon are strictly increasing over the whole
\* run, across exits and respawns of the daemon; servoSeq never decreases
\* and is the largest id assigned; and the entry kept in servoCallbacks
\* under an id is the one of the call that was given this id.
C13_IdsNeverReused ==
  /\ [](\A i, j \in 1..Len(daemonStdin) :
          i < j => daemonStdin[i].id < daemonStdin[j].id)
  /\ [](\A i \in 1..Len(daemonStdin) : daemonStdin[i].id <= servoSeq)
  /\ [](\A id \in DOMAIN servoCallbacks : id <= servoSeq /\ servoCallbacks[id] = id)
  /\ [][servoSeq' >= servoSeq]_vars

\* A command was written to a respawned daemon while a command written to
\* the daemon before it is still pending.
C13_Witness ==
  \E i, j \in 1..Len(daemonStdin) :
    /\ i < j
    /\ daemonStdin[i].to # daemonStdin[j].to
    /\ daemonStdin[i].id \in DOMAIN servoCallbacks
----------------------------------------------------------------------------
\* C14: when the daemon exits, servoReady becomes false and servoDaemon null
\* in the exit handler, which schedules exactly one respawn; and a servoCmd
\* call is accepted (its line written to the daemon) only when the running
\* daemon has signalled readiness.
C14_ExitThenNotReady ==
  /\ [][(servoDaemon # 0 /\ servoDaemon' = 0) =>
          (~servoReady' /\ servoRespawn' = servoRespawn + 1)]_vars
  /\ [][Len(daemonStdin') > Len(daemonStdin) => daemonSaidReady]_vars

\* C15: the link goes from not-ready to ready only by a bare READY line in
\* the chunk being handled, and only while the process that printed it is
\* the running one.
HandlesReadyLine ==
  \E n \in 1..Len(daemonStdout) :
    /\ daemonStdout' = SubSeq(daemonStdout, n + 1, Len(daemonStdout))
    /\ \E i \in DOMAIN CompleteLines(servoBuffer \o SubSeq(daemonStdout, 1, n)) :
         CompleteLines(servoBuffer \o SubSeq(daemonStdout, 1, n))[i] = <<READY>>
C15_ReadyOnlyByOwnReady ==
  [][(~servoReady /\ servoReady') =>
       (HandlesReadyLine /\ servoDaemon # 0 /\ daemonSaidReady)]_vars

\* C16: at most one deferred-OFF timer is armed at any time and it is the
\* one servoVOffTimer.ref holds; a deferred OFF is called only when
\* SERVO_V_SETTLE_MS have passed since the last vertical servoSetCmd, so
\* none is called between two calls that are closer than that; and after
\* the last call of a burst (when the calls do not go on forever) the
\* deferred OFF is called, exactly once.
C16_SettleAndRelease ==
  /\ [](Cardinality(DOMAIN vOffArmed) <= 1)
  /\ [](DOMAIN vOffArmed = IF servoVOffTimer = 0 THEN {} ELSE {servoVOffTimer})
  /\ [][vOffCalls' > vOffCalls => sinceVMove >= SERVO_V_SETTLE_MS]_vars
  /\ [](vOffCalls <= 1)
  /\ [](servoVOffTimer # 0 => vOffCalls = 0)
  /\ \/ <>[](servoVOffTimer = 0 /\ (vBurst > 0 => vOffCalls = 1))
     \/ []<>(sinceVMove = 0)
C16_Witness ==
  /\ vBurst = 2
  /\ vOffCalls = 1
  /\ servoVOffTimer = 0
  /\ Len(daemonStdin) >= 2
  /\ daemonStdin[Len(daemonStdin) - 1].cmd.op = "SET"
  /\ daemonStdin[Len(daemonStdin)].cmd.op = "OFF"

----------------------------------------------------------------------------
\* C17: whenever a UI attach has been accepted and is counted in
\* uiStreamClients, a producer is running (or its handle is still held) or
\* a restart is under way.
RestartPending ==
  \E r \in Viewers : reqPc[r] \in {"stopExec", "stopWait", "starting"}
UiOpen(r) == reqPc[r] = "open" /\ reqUi[r]
C17_AcceptedHasProducer ==
  ((\E r \in Viewers : UiOpen(r)) /\ uiStreamClients > 0) =>
    (procAlive # {} \/ cameraProcess # 0 \/ RestartPending)

----------------------------------------------------------------------------
\* C18: a step that brings uiStreamClients to 0 arms an idle timer; a UI
\* attach leaves no idle timer armed; an idle timer that fires while the
\* count is 0 and a producer is held sends it SIGTERM; and no idle timer
\* sends SIGTERM while the count is greater than 0.
IdleFires == Cardinality(idleArmed') < Cardinality(idleArmed) /\ reqPc' = reqPc
C18_IdleShutdown ==
  /\ [][(uiStreamClients > 0 /\ uiStreamClients' = 0) =>
          (cameraIdleTimer' # 0 /\ cameraIdleTimer' \in idleArmed')]_vars
  /\ [][\A r \in Viewers :
          (reqPc[r] = "new" /\ reqPc'[r] # "new" /\ reqUi'[r]) => idleArmed' = {}]_vars
  /\ [][(IdleFires /\ uiStreamClients = 0 /\ cameraProcess # 0) =>
          cameraProcess \in procSignalled']_vars
  /\ [][(IdleFires /\ procSignalled' # procSignalled) => uiStreamClients = 0]_vars

----------------------------------------------------------------------------
\* C19: after the exit handler of a producer that ended without having been
\* sent a signal has run, cameraClients is empty, uiStreamClients is 0,
\* frameBuffer is empty and latestFrame is null.
C19_ExitResetsDemand ==
  [][(\E p \in procExited : p \notin procExited' /\ p \notin procSignalled) =>
       /\ cameraClients' = {}
       /\ uiStreamClients' = 0
       /\ frameBuffer' = <<>>
       /\ latestFrame' = <<>>]_vars

----------------------------------------------------------------------------
\* C20: when the 500 ms timer of a request's startCameraStream fires and
\* the producer that call spawned is not running, the request fails, is not
\* added to cameraClients and uiStreamClients is not incremented.
C20_StartupFailure ==
  [][\A r \in Viewers :
       (reqPc[r] = "starting" /\ reqPc'[r] # "starting"
        /\ reqProc[r] \notin procAlive) =>
         /\ reqPc'[r] = "failed"
         /\ r \notin cameraClients'
         /\ uiStreamClients' = uiStreamClients]_vars

----------------------------------------------------------------------------
\* C21: the target of an axis at position p for the offset o is
\* clamp(round(p + clamp(-o * TRACK_GAIN, -TRACK_MAX_STEP, TRACK_MAX_STEP)),
\* SERVO_MIN, SERVO_MAX): it is the integer nearest to p plus the clamped
\* step (halves upward), brought into the axis range; it is never more than
\* TRACK_MAX_STEP away from p; and p = 100 with offset -0.3 gives 110.
LawStep(c) ==
  LET raw == (50 - c) * TRACK_GAIN
  IN IF raw > TRACK_MAX_STEP * 100 THEN TRACK_MAX_STEP * 100
     ELSE IF raw < 0 - TRACK_MAX_STEP * 100 THEN 0 - TRACK_MAX_STEP * 100
     ELSE raw
IsNearest(n, x100) == 100 * n - 50 <= x100 /\ x100 < 100 * n + 50
C21_ControlLaw ==
  fnRes.done =>
    /\ \E n \in (SERVO_MIN - TRACK_MAX_STEP - 1)..(SERVO_MAX + TRACK_MAX_STEP + 1) :
         /\ IsNearest(n, 100 * fnArg.p + LawStep(fnArg.c))
         /\ fnRes.val = (IF n < SERVO_MIN THEN SERVO_MIN
                         ELSE IF n > SERVO_MAX THEN SERVO_MAX ELSE n)
    /\ fnRes.val - fnArg.p <= TRACK_MAX_STEP
    /\ fnArg.p - fnRes.val <= TRACK_MAX_STEP
    /\ (fnArg.p = 100 /\ fnArg.c = 20) => fnRes.val = 110
C21_Witness ==
  fnRes.done /\ fnArg.p = 100 /\ fnArg.c = 20 /\ fnRes.val = 110

----------------------------------------------------------------------------
\* C22: the step in which an error line ends the session leaves tracking
\* inactive, the detector signalled and no hold or cooldown timer armed;
\* and while no session is active no SET command is written to the daemon.
FaultStep == motionTrackingActive /\ ~motionTrackingActive' /\ detOpen' = detOpen
C22_FaultTearsDown ==
  /\ [][FaultStep =>
          /\ motionTrackerProcess' = 0
          /\ motionTrackerProcess \in detKilled'
          /\ motionSettleTimer' = 0 /\ settleArmed' = {}
          /\ motionCooldownTimer' = 0 /\ cooldownArmed' = EmptyMap]_vars
  /\ [][~motionTrackingActive =>
          SetsSent(daemonStdin') = SetsSent(daemonStdin)]_vars

----------------------------------------------------------------------------
\* C23: once motionCooldown is set it is eventually cleared with the bout
\* state re-armed, whether the trigger request succeeds or fails; and in a
\* session that goes on, the step that clears it comes FIRE_COOLDOWN_MS or
\* more after the cooldown was entered and leaves motionBoutActive false.
ReleaseStep ==
  /\ motionCooldown /\ ~motionCooldown'
  /\ motionTrackerProcess # 0 /\ motionTrackerProcess' = motionTrackerProcess
C23_CooldownReleased ==
  /\ motionCooldown ~> (~motionCooldown /\ ~motionBoutActive)
  /\ [][ReleaseStep => (sinceTrigger >= FIRE_COOLDOWN_MS /\ ~motionBoutActive')]_vars

----------------------------------------------------------------------------
\* The two axis values of the file as readServoState takes them: the numbers
\* parseFloat finds in the first two comma-separated fields.
AxisH == ParseFloat(Part0(Trim(fnArg.data)))
AxisV == ParseFloat(Part1(Trim(fnArg.data)))
OutOfRange(x) == x.fin /\ (NumLess(x, SERVO_MIN) \/ NumGreater(x, SERVO_MAX))
InRange(x) == x.fin /\ ~OutOfRange(x)

\* C24 as stated: an axis value that is a number outside
\* [SERVO_MIN, SERVO_MAX] is returned as SERVO_CENTER, and an in-range value
\* is returned unchanged.
C24_OutOfRangeIsCenter ==
  (fnRes.done /\ fnArg.exists) =>
    /\ OutOfRange(AxisH) => fnRes.val.horizontal = Num(SERVO_CENTER)
    /\ OutOfRange(AxisV) => fnRes.val.vertical = Num(SERVO_CENTER)
    /\ InRange(AxisH) => fnRes.val.horizontal = AxisH
    /\ InRange(AxisV) => fnRes.val.vertical = AxisV

\* What readServoState returns: a number below SERVO_MIN is returned as
\* SERVO_MIN and a number above SERVO_MAX as SERVO_MAX; an in-range number is returned
\* unchanged; a field that is missing or holds no number, and every axis of
\* a file that cannot be read, is returned as SERVO_CENTER.
AxisRead(x, r) ==
  /\ (x.fin /\ NumLess(x, SERVO_MIN)) => r = Num(SERVO_MIN)
  /\ (x.fin /\ NumGreater(x, SERVO_MAX)) => r = Num(SERVO_MAX)
  /\ InRange(x) => r = x
  /\ ~x.fin => r = Num(SERVO_CENTER)
ReadClamps ==
  fnRes.done =>
    IF fnArg.exists
    THEN /\ AxisRead(AxisH, fnRes.val.horizontal)
         /\ AxisRead(AxisV, fnRes.val.vertical)
    ELSE fnRes.val = [horizontal |-> Num(SERVO_CENTER), vertical |-> Num(SERVO_CENTER)]

\* The file "-2,9" has been read: one axis below the range, one inside it,
\* and the result is SERVO_MIN and 9.
ReadClampsSeen ==
  /\ fnRes.done /\ fnArg.exists
  /\ fnArg.data = <<"-", "2", ",", "9">>
  /\ OutOfRange(AxisH) /\ InRange(AxisV)
  /\ fnRes.val = [horizontal |-> Num(SERVO_MIN), vertical |-> Num(9)]

----------------------------------------------------------------------------
\* C25: both persisted axis positions, and the angle of every SET command
\* written to the daemon, are within [SERVO_MIN, SERVO_MAX].
C25_AxisRange ==
  /\ servoState.h \in SERVO_MIN..SERVO_MAX
  /\ servoState.v \in SERVO_MIN..SERVO_MAX
  /\ \A i \in 1..Len(daemonStdin) :
       daemonStdin[i].cmd.op = "SET" => daemonStdin[i].cmd.deg \in SERVO_MIN..SERVO_MAX

\* A face-track move from three degrees below the upper limit has been
\* sent with the limit as its angle, answered, and persisted.
C25_Witness ==
  /\ Len(daemonStdin) = 2
  /\ daemonStdin[1].cmd = [op |-> "SET", ch |-> SERVO_H_CHANNEL, deg |-> SERVO_MAX]
  /\ daemonStdin[2].cmd.op = "SET"
  /\ servoState.h = SERVO_MAX
  /\ stepPending = EmptyMap
  /\ servoPromise[1].st = "resolved" /\ servoPromise[2].st = "resolved"
  /\ ~pendingMove.set
  /\ detSeq = 0

----------------------------------------------------------------------------
\* C26: a viewer that is registered while latestFrame is not null has the
\* write of that frame started in the step that registers it; and
\* latestFrame is null whenever there is no current producer, once the
\* callback of a stop has run.
PushedOnAttach(r) ==
  (reqPc[r] # "open" /\ reqPc'[r] = "open" /\ latestFrame' # <<>>)
    => (busy'[r] /\ writing'[r] = writing[r] + 1)
StopInProgress == \E r \in Viewers : reqPc[r] = "stopExec"
C26_AttachPushesLatest ==
  /\ [][\A r \in Viewers : PushedOnAttach(r)]_vars
  /\ []((cameraProcess = 0 /\ ~StopInProgress) => latestFrame = <<>>)

----------------------------------------------------------------------------
\* C27: every frame emitted by broadcastFrame is at least 4 bytes long,
\* starts with FF D8, ends with FF D9 and has no end marker before its last
\* two bytes; and when broadcastFrame has returned, frameBuffer holds no
\* start marker that is followed by an end marker.
WellFormed(f) ==
  /\ Len(f) >= 4
  /\ SubSeq(f, 1, 2) = jpegStart
  /\ SubSeq(f, Len(f) - 1, Len(f)) = jpegEnd
  /\ IndexOf(f, jpegEnd, 1) = Len(f) - 1
HoldsFrame(buf) ==
  \E i \in 1..Len(buf) : \E j \in (i + 1)..Len(buf) :
    /\ IndexOf(buf, jpegStart, i) = i
    /\ IndexOf(buf, jpegEnd, j) = j
C27_FrameAccumulator ==
  /\ \A k \in 1..Len(emitted) : WellFormed(emitted[k])
  /\ ~HoldsFrame(frameBuffer)

\* A stream has been fed whole in two or more chunks: one frame was
\* emitted and the start marker of a next frame is left in the buffer.
C27_Witness ==
  /\ fed = Len(stream)
  /\ nChunks >= 2
  /\ Len(emitted) = 1
  /\ frameBuffer = jpegStart

----------------------------------------------------------------------------
\* C28: when broadcastFrame has returned, frameBuffer holds only the partial
\* frame that follows the last complete frame: nothing is kept in front of a
\* start marker, and of bytes without a start marker no more than a last
\* byte that may be the first half of one.
C28_BoundedBuffer ==
  LET startIdx == IndexOf(frameBuffer, jpegStart, 1)
  IN /\ startIdx # 0 => startIdx = 1
     /\ startIdx = 0 => Len(frameBuffer) <= 1

----------------------------------------------------------------------------
\* C29: the frames written to a viewer are emitted frames in the order of
\* their emission, none of them twice; a frame is written to a viewer only
\* in the call that emits it (or, for the cached frame, at registration), so
\* a frame that passes a busy viewer is never written to it; and a viewer
\* never has more than one frame write in progress.
Ordered(g) ==
  /\ \A i \in 1..Len(g) :
       /\ g[i].n \in 1..Len(emitted)
       /\ g[i].frame = emitted[g[i].n]
  /\ \A i \in 1..(Len(g) - 1) : g[i].n < g[i + 1].n
WrittenNow(v) ==
  \/ got'[v] = got[v]
  \/ /\ ~busy[v]
     /\ Len(got'[v]) = Len(got[v]) + 1
     /\ SubSeq(got'[v], 1, Len(got[v])) = got[v]
     /\ \/ got'[v][Len(got'[v])].n > Len(emitted)
        \/ reqPc[v] = "new" /\ got'[v][1].n = Len(emitted)
C29_DropsWithoutBacklog ==
  /\ [](\A v \in Viewers : Ordered(got[v]) /\ writing[v] <= 1)
  /\ [][\A v \in Viewers : WrittenNow(v)]_vars

\* A viewer was given the cached frame at registration, was busy while the
\* next frame was emitted, and was written the frame after that one.
C29_Witness ==
  \E v \in Viewers :
    /\ Len(got[v]) = 2
    /\ got[v][1].n = 1
    /\ got[v][2].n = 3
    /\ Len(emitted) = 3

----------------------------------------------------------------------------
----------------------------------------------------------------------------
\* A line that is empty, or neither READY nor a tagged response, or a
\* tagged response whose id has no entry in the callbacks L held.
StrayLine(cbs, line) ==
  \/ line = <<>>
  \/ line # <<READY>> /\ ~IsTagged(line)
  \/ IsTagged(line) /\ TagOf(line) \notin DOMAIN cbs

----------------------------------------------------------------------------
\* A step on which detector p exits.
ExitOf(p) == p \in detOpen /\ p \notin detOpen'

\* C32: the exit of the detector of the current session tears the session
\* down (inactive, cooldown and bout flags cleared, the hold and cooldown
\* timers it holds cancelled); the exit of a detector that is not the current one leaves the
\* process handle and the session of the current one as they are; and at
\* most one detector that was not sent SIGTERM is alive.
C32_ExitTearsDownOwnSession ==
  /\ [][\A p \in 1..MaxSessions :
          (ExitOf(p) /\ motionTrackerProcess = p) =>
            /\ motionTrackerProcess' = 0
            /\ ~motionTrackingActive'
            /\ ~motionCooldown' /\ ~motionBoutActive'
            /\ motionSettleTimer' = 0
            /\ motionSettleTimer \notin settleArmed'
            /\ motionCooldownTimer' = 0
            /\ motionCooldownTimer \notin DOMAIN cooldownArmed']_vars
  /\ [][\A p \in 1..MaxSessions :
          (ExitOf(p) /\ motionTrackerProcess # p) =>
            /\ motionTrackerProcess' = motionTrackerProcess
            /\ motionTrackingActive' = motionTrackingActive]_vars
  /\ [](Cardinality(detOpen \ detKilled) <= 1)

----------------------------------------------------------------------------
\* The commands written for the last event, and the targets of that event.
LastSent == SubSeq(daemonStdin, fnArg.sent + 1, Len(daemonStdin))
LastNewH == TrackTarget(fnArg.pos.h, fnArg.msg.cx)
LastNewV == TrackTarget(fnArg.pos.v, fnArg.msg.cy)

\* C33: every command the controller writes for an event is the SET of an
\* axis whose computed target differs from the persisted position, to that
\* target; when both targets equal the persisted position no command is
\* written, the in-flight guard is not set and the persisted position is
\* unchanged.
C33_MoveOnlyWhenDifferent ==
  fnRes.done =>
    /\ \A i \in DOMAIN LastSent :
         /\ LastSent[i].cmd.op = "SET"
         /\ \/ /\ LastSent[i].cmd.ch = SERVO_H_CHANNEL
               /\ LastSent[i].cmd.deg = LastNewH
               /\ LastNewH # fnArg.pos.h
            \/ /\ LastSent[i].cmd.ch = SERVO_V_CHANNEL
               /\ LastSent[i].cmd.deg = LastNewV
               /\ LastNewV # fnArg.pos.v
    /\ (LastNewH = fnArg.pos.h /\ LastNewV = fnArg.pos.v) =>
         /\ LastSent = <<>>
         /\ servoState = fnArg.pos
         /\ ~fnArg.inflight => ~motionServoInflight

\* An event off centre on both axes was handled with the horizontal axis at
\* the end of its range: only the vertical axis was sent a move.
C33_Witness ==
  /\ fnRes.done
  /\ fnArg.msg.cx # 50
  /\ LastNewH = fnArg.pos.h
  /\ Len(LastSent) = 1
  /\ LastSent[1].cmd.ch = SERVO_V_CHANNEL
  /\ servoState = [h |-> fnArg.pos.h, v |-> LastNewV]

----------------------------------------------------------------------------
\* C34: servoCmd called while servoReady is false or there is no daemon is
\* rejected and leaves servoSeq, servoCallbacks, the timeouts, the promises
\* and the daemon's stdin as they were; called on a ready link it is
\* accepted and takes the next id.
C34_NotReadyRejects ==
  fnRes.done =>
    /\ (~fnArg.ready \/ fnArg.daemon = 0) =>
         /\ ~fnRes.val
         /\ servoSeq = fnArg.K.seq
         /\ servoCallbacks = fnArg.K.cbs
         /\ servoTimeouts = fnArg.K.tmo
         /\ servoPromise = fnArg.K.prom
         /\ daemonStdin = fnArg.K.stdin
    /\ (fnArg.ready /\ fnArg.daemon # 0) =>
         /\ fnRes.val
         /\ servoSeq = fnArg.K.seq + 1
         /\ Len(daemonStdin) = Len(fnArg.K.stdin) + 1

\* servoCmd was called on a link that is not ready while an earlier call is
\* still pending, and was rejected.
C34_Witness ==
  /\ fnRes.done
  /\ ~fnRes.val
  /\ ~fnArg.ready
  /\ servoCallbacks # EmptyMap

----------------------------------------------------------------------------
\* C35: once a respawned daemon has printed READY, the link becomes ready
\* (or that daemon exits in its turn); and when a new daemon is started no
\* bytes of the old one are left in servoBuffer to be parsed with its first
\* line.
C35_LinkRecovers ==
  /\ (servoSpawns > 1 /\ servoDaemon # 0 /\ daemonSaidReady)
       ~> (servoReady \/ servoDaemon = 0)
  /\ [][(servoDaemon = 0 /\ servoDaemon' # 0) => servoBuffer = <<>>]_vars

----------------------------------------------------------------------------
\* Producers that are running and were not sent a signal.
Feeding == procAlive \ procSignalled

\* C36: at most one producer is running that was not sent a signal, and
\* every such producer is the one cameraProcess refers to.
C36_SingleProducer ==
  /\ Cardinality(Feeding) <= 1
  /\ \A p \in Feeding : cameraProcess = p

----------------------------------------------------------------------------
\* The UI viewers whose stream is open.
UiViewers == {r \in Viewers : UiOpen(r)}

\* C37: uiStreamClients is the number of UI viewers whose stream is open; no
\* idle timer is armed while one of them is open; and no idle timer sends
\* SIGTERM to the producer while one of them is open.
C37_DemandCount ==
  /\ [](uiStreamClients = Cardinality(UiViewers))
  /\ [](UiViewers # {} => idleArmed = {})
  /\ [][(IdleFires /\ procSignalled' # procSignalled) => UiViewers = {}]_vars

----------------------------------------------------------------------------
\* C38: when the completion of a move clears the in-flight guard while a
\* session is running, no move of the controller is left awaiting its
\* acknowledgment; and there is never more than one such move while the
\* guard reads false.
C38_GuardAcrossSessions ==
  /\ [][(motionServoInflight /\ ~motionServoInflight'
          /\ motionTrackingActive /\ motionTrackingActive') =>
            moveBatches' = {}]_vars
  /\ [](~motionServoInflight => Cardinality(moveBatches) <= 1)

----------------------------------------------------------------------------
\* C39: once a quiet event has ended a bout, the bout flag is clear and no
\* hold timer is left pending, and no trigger is issued until an active
\* event has begun a new bout.
C39_QuietCancelsHold ==
  /\ [](~obs.lastActive => (~motionBoutActive /\ settleArmed = {}))
  /\ [][~obs.lastActive => fetching' <= fetching]_vars

----------------------------------------------------------------------------
\* C40: no move is computed and issued from an active event of a chunk
\* after an event of a later chunk has been handled (applied, passed over,
\* or skipped by the in-flight guard).
C40_ArrivalOrder == ~seekObs.late

====
